---- MODULE Spec2Model ----
(***************************************************************************)
(* Model of the dbt configuration resolver (app/dbt/config/config.py) and  *)
(* of the configuration providers it queries (app/dbt/config/providers).   *)
(*                                                                         *)
(* Python values are tagged records: None, a dict, a set of verbs, a Path  *)
(* or a raised exception.  A dict is a TLA+ function whose DOMAIN is the   *)
(* key set.                                                                *)
(***************************************************************************)
EXTENDS Integers, Sequences, FiniteSets, TLC

VARIABLES
    \* ---- DbtConfig._load_attribute, one call (config/config.py:80-97)
    la_results,     \* what each provider's method returns, in list order
    la_i,           \* index of the provider the for loop is at
    la_value,       \* the local `value` (a dict), or the exception raised
    la_pc,          \* "loop" | "returned" | "raised" ("idle": no call)
    \* ---- inputs of DbtConfig.create_instance
    providers_arg,  \* the `providers` argument: None or a list of providers
    environ,        \* os.environ: variable name -> string
    allowlist_dir,  \* verbs with a dbt-{verb}.yml in defaults/flag_allowlists
    allowlist_global, \* defaults/flag_allowlists/global.yml: content or missing
    schema_dir,     \* verbs with a dbt-{verb}.yml in the jsonschema directory
    \* ---- DbtConfig.create_instance / _load (config/config.py:29-78)
    pc,             \* "start" | "load" | "done" ("idle": no resolution)
    providers,      \* the local `providers` of create_instance
    available_verbs,\* the local `available_verbs` of _load
    attrs,          \* the local `attrs` of _load
    idx,            \* position of _load's for loop in its attribute table
    queried,        \* history: every provider result obtained so far
    result,         \* what create_instance returned or raised
    \* ---- get_projects_root_dir of one provider
    pr_environ,     \* DBT_PROJECTS_ROOT: None or a path string
    pr_option,      \* [dbt].projects_root_dir of the parsed file, if any
    pr_fs,          \* the file system: path -> "missing" | "file" | "dir"
    pr_provider,    \* which provider was asked
    pr_result       \* what it returned or raised

varsLA == <<la_results, la_i, la_value, la_pc>>
varsIn == <<providers_arg, environ, allowlist_dir, allowlist_global, schema_dir>>
varsCI == <<pc, providers, available_verbs, attrs, idx, queried, result>>
varsPR == <<pr_environ, pr_option, pr_fs, pr_provider, pr_result>>

VARIABLES
    \* ---- repeated calls of create_instance and DbtConfigLoader.get_config
    outcomes,       \* what the earlier create_instance calls returned or raised
    gc_instance,    \* DbtConfigLoader._instance
    gc_pc,          \* "ready" | "resolving" ("idle": no loader)
    gc_attempts,    \* how many times get_config called create_instance
    gc_log          \* what each completed get_config call returned or raised

varsGC == <<outcomes, gc_instance, gc_pc, gc_attempts, gc_log>>

VARIABLES
    \* ---- one call of an operation of a provider, the schema or a parser
    call_op,        \* the operation called ("idle": none)
    call_args,      \* its arguments and the sources it reads, as a record
    call_result     \* what it returned or raised (None before it ended)

varsCall == <<call_op, call_args, call_result>>

varsNew == <<varsGC, varsCall>>

VARIABLES
    \* ---- one FileConfigProvider object and the sources around it
    fp_environ,     \* DBT_CONFIG_FILE: None or its string value
    fp_fs,          \* the file system: path -> missing, directory or file
    fp_self,        \* the provider: unbuilt, its (path, config), or the raise
    fp_built,       \* history: (path, config) as __init__ assigned them
    fp_query,       \* the last query: method, scope, available_verbs
    fp_result       \* what the last query returned or raised

varsFP == <<fp_environ, fp_fs, fp_self, fp_built, fp_query, fp_result>>

VARIABLES
    \* ---- DbtConfigLoader.get_config called from several threads
    cc_instance,    \* DbtConfigLoader._instance
    cc_pc,          \* per thread: "call" | "resolving" | "resolved" | "done"
    cc_local,       \* per thread: what its create_instance() call ended with
    cc_returned     \* per thread: what each of its get_config calls returned or raised

varsCC == <<cc_instance, cc_pc, cc_local, cc_returned>>

varsLate == <<varsFP, varsCC>>
vars == <<varsLA, varsIn, varsCI, varsPR, varsNew, varsLate>>

-----------------------------------------------------------------------------
\* Bounds

\* longest provider list handed to one _load_attribute call
MaxProviders == 3

-----------------------------------------------------------------------------
\* Python values

NoneV == [tag |-> "none"]
DictV(d) == [tag |-> "dict", d |-> d]
SetV(s) == [tag |-> "set", s |-> s]
PathV(p) == [tag |-> "path", p |-> p]
\* a raised exception: its class and the statement that raised it
RaiseV(exc, at) == [tag |-> "raise", exc |-> exc, at |-> at]

EmptyDict == [k \in {} |-> ""]

\* Python strings that the code inspects character by character are
\* sequences of one-character strings.
V_run == <<"r", "u", "n">>
V_ls == <<"l", "s">>
S_global == <<"g", "l", "o", "b", "a", "l">>
\* the verb tokens of the model
VerbTokens == {V_run, V_ls}

\* d1.update(d2) for two dicts: d2's entries overwrite d1's
DictMerge(d1, d2) ==
    [k \in (DOMAIN d1) \cup (DOMAIN d2) |->
        IF k \in DOMAIN d2 THEN d2[k] ELSE d1[k]]

\* A set of two-character strings read as key/value pairs.
PairsOf(s) ==
    [c \in {t[1] : t \in s} |-> (CHOOSE t \in s : t[1] = c)[2]]

\* value.update(provider_value) as Python's dict.update evaluates it:
\*   - a mapping is merged key by key;
\*   - any other iterable must yield 2-sequences: a set of verb strings
\*     raises ValueError unless every string has exactly two characters,
\*     in which case each string "xy" becomes the entry x -> y;
\*   - a Path is not iterable: TypeError.
DictUpdate(value, pv) ==
    CASE pv.tag = "dict" -> DictV(DictMerge(value, pv.d))
      [] pv.tag = "set" ->
            IF \E t \in pv.s : Len(t) # 2
            THEN RaiseV("ValueError", "dict.update")
            ELSE DictV(DictMerge(value, PairsOf(pv.s)))
      [] OTHER -> RaiseV("TypeError", "dict.update")

\* Body of the for loop of _load_attribute for one provider whose method
\* returned (or raised) pv, with `value` the dict built so far.
LoadAttributeBodyKeepFirst(value, pv) ==
    CASE pv.tag = "raise" -> pv
      [] pv.tag = "none" -> DictV(value)
      [] pv.tag = "dict" -> DictV(DictMerge(pv.d, value))
      [] OTHER -> DictUpdate(value, pv)

\* the same body with a provider's exception swallowed
LoadAttributeBodySwallow(value, pv) ==
    CASE pv.tag \in {"raise", "none"} -> DictV(value)
      [] OTHER -> DictUpdate(value, pv)

LoadAttributeBody(value, pv) ==
    CASE pv.tag = "raise" -> pv
      [] pv.tag = "none" -> DictV(value)
      [] OTHER -> DictUpdate(value, pv)

\* _load_attribute over the providers' results taken in list order,
\* starting from provider i with `value` built so far.  Returns DictV or
\* the exception that ended the loop, and n, the number of providers
\* whose method was called.
RECURSIVE LoadAttributeFrom(_, _, _)
LoadAttributeFrom(value, results, i) ==
    IF i > Len(results)
    THEN [out |-> DictV(value), n |-> Len(results)]
    ELSE LET r == LoadAttributeBody(value, results[i])
         IN  IF r.tag = "raise"
             THEN [out |-> r, n |-> i]
             ELSE LoadAttributeFrom(r.d, results, i + 1)

LoadAttribute(results) == LoadAttributeFrom(EmptyDict, results, 1)

-----------------------------------------------------------------------------
\* Specification of one _load_attribute call

DictKeys == {"k1", "k2"}
DictVals == {"a", "b"}
DictPool == UNION {[ks -> DictVals] : ks \in SUBSET DictKeys}
SetPool == SUBSET VerbTokens
PathPool == {"/projects", "/missing"}

SeqsUpTo(n, S) == UNION {[1..m -> S] : m \in 0..n}

\* All results of one call are of the attribute's type, or None.
ResultLists ==
    SeqsUpTo(MaxProviders, {NoneV} \cup {DictV(d) : d \in DictPool})
    \cup SeqsUpTo(MaxProviders, {NoneV} \cup {SetV(s) : s \in SetPool})
    \cup SeqsUpTo(MaxProviders, {NoneV} \cup {PathV(p) : p \in PathPool})

\* no _load_attribute call is being stepped
IdleLA ==
    /\ la_results = <<>>
    /\ la_i = 1
    /\ la_value = DictV(EmptyDict)
    /\ la_pc = "idle"

StartLA ==
    /\ la_results \in ResultLists
    /\ la_i = 1
    /\ la_value = DictV(EmptyDict)
    /\ la_pc = "loop"

\* one iteration of `for provider in providers` (config.py:88-96)
LoadAttributeIter ==
    /\ la_pc = "loop"
    /\ la_i <= Len(la_results)
    /\ LET r == LoadAttributeBody(la_value.d, la_results[la_i])
       IN  /\ la_value' = r
           /\ la_pc' = IF r.tag = "raise" THEN "raised" ELSE "loop"
           /\ la_i' = IF r.tag = "raise" THEN la_i ELSE la_i + 1
    /\ UNCHANGED <<la_results, varsIn, varsCI, varsPR, varsNew, varsLate>>

\* `return value` (config.py:97)
LoadAttributeReturn ==
    /\ la_pc = "loop"
    /\ la_i > Len(la_results)
    /\ la_pc' = "returned"
    /\ UNCHANGED <<la_results, la_i, la_value, varsIn, varsCI, varsPR, varsNew, varsLate>>

-----------------------------------------------------------------------------
\* EnvironmentConfigProvider (providers/environment.py)

StrV(s) == [tag |-> "str", s |-> s]

Lower == {"a", "b", "c", "d", "e", "f", "g", "h", "i", "j", "k", "l", "m",
          "n", "o", "p", "q", "r", "s", "t", "u", "v", "w", "x", "y", "z"}

\* os.getenv(name)
GetEnv(env, name) == IF name \in DOMAIN env THEN StrV(env[name]) ELSE NoneV

\* Positions right after one repetition of  ([a-z][a-z\-]+,?)|[*]  that
\* starts at position i of s.
EnvVerbItemEnds(s, i) ==
    IF i > Len(s) THEN {}
    ELSE IF s[i] = "*" THEN {i + 1}
    ELSE IF s[i] \notin Lower THEN {}
    ELSE LET ends == {e \in (i + 1)..Len(s) :
                         \A k \in (i + 1)..e : s[k] \in Lower \cup {"-"}}
         IN  {e + 1 : e \in ends}
             \cup {e + 2 : e \in {x \in ends : x < Len(s) /\ s[x + 1] = ","}}

\* Positions reachable from `frontier` by one or more repetitions.
RECURSIVE EnvVerbReach(_, _, _)
EnvVerbReach(s, frontier, seen) ==
    LET new == UNION {EnvVerbItemEnds(s, i) : i \in frontier} \ seen
    IN  IF new = {} THEN seen ELSE EnvVerbReach(s, new, seen \cup new)

\* re.match(r"^(([a-z][a-z\-]+,?)|[*])+$", s)
EnvVerbListMatches(s) == (Len(s) + 1) \in EnvVerbReach(s, {1}, {})

\* set(s.split(","))
RECURSIVE SplitFrom(_, _, _)
SplitFrom(s, i, cur) ==
    IF i > Len(s) THEN {cur}
    ELSE IF s[i] = "," THEN {cur} \cup SplitFrom(s, i + 1, <<>>)
    ELSE SplitFrom(s, i + 1, Append(cur, s[i]))

SplitComma(s) == SplitFrom(s, 1, <<>>)

\* _get_verbs_from_environment_variable (environment.py:314-355)
GetVerbsFromEnvironmentVariable(env, env_var_name, av) ==
    LET env_var_value == GetEnv(env, env_var_name)
    IN  IF env_var_value.tag = "none" \/ env_var_value.s = <<>>
        THEN NoneV
        ELSE IF ~EnvVerbListMatches(env_var_value.s)
        THEN RaiseV("ValueError", "EnvironmentConfigProvider: verb list format")
        ELSE LET split == SplitComma(env_var_value.s)
                 value == IF <<"*">> \in split
                          THEN (split \ {<<"*">>}) \cup av
                          ELSE split
             IN  IF ~(value \subseteq av)
                 THEN RaiseV("ValueError", "EnvironmentConfigProvider: unsupported verbs")
                 ELSE SetV(value)

\* EnvironmentConfigProvider.get_projects_root_dir (environment.py:265-275)
EnvGetProjectsRootDir(root) ==
    IF root.tag = "none" THEN NoneV ELSE PathV(root.s)

\* the environment variable behind each verb-list method
EnvVerbListVariable(method) ==
    CASE method = "get_allowed_verbs" -> "DBT_ALLOWED_VERBS"
      [] method = "get_flag_allowlist_apply_global" -> "DBT_APPLY_GLOBAL_ALLOWLIST"
      [] method = "get_env_variables_apply_global" -> "DBT_APPLY_GLOBAL_ENV_VARS"
      [] method = "get_flag_internal_values_apply_global" ->
            "DBT_APPLY_GLOBAL_INTERNAL_FLAG_VALUES"
      [] method = "get_variables_apply_global" -> "DBT_APPLY_GLOBAL_VARS"

VerbListMethods ==
    {"get_allowed_verbs", "get_flag_allowlist_apply_global",
     "get_env_variables_apply_global", "get_flag_internal_values_apply_global",
     "get_variables_apply_global"}

\* the methods that take the scope (`verb`) as their argument
ScopedMethods ==
    {"get_flag_allowlist", "get_env_variables", "get_flag_internal_values",
     "get_variables"}

\* One method of the environment provider.  The environments of this model
\* set no DBT_*ENABLE_FLAGS, DBT_*DISABLE_FLAGS, DBT_*FLAG_*, DBT_*ENV_* or
\* DBT_*VAR_* variable, for which every scoped method returns None
\* (environment.py:92, 171, 226-227, 295).
EnvQuery(env, method, av) ==
    CASE method \in VerbListMethods ->
            GetVerbsFromEnvironmentVariable(env, EnvVerbListVariable(method), av)
      [] method = "get_projects_root_dir" ->
            EnvGetProjectsRootDir(GetEnv(env, "DBT_PROJECTS_ROOT"))
      [] OTHER -> NoneV

-----------------------------------------------------------------------------
\* DefaultsConfigProvider (providers/defaults/__init__.py)

\* one pass of the loop of available_verbs() over a directory
AvailableVerbsStep(all_available_verbs, dir_available_verbs) ==
    LET seeded == IF Cardinality(all_available_verbs) = 0
                  THEN dir_available_verbs
                  ELSE all_available_verbs
    IN  seeded \cap dir_available_verbs

\* DefaultsConfigProvider.available_verbs(): the allowlist directory first,
\* the schema directory second
DefaultsAvailableVerbs(allowlistDir, schemaDir) ==
    AvailableVerbsStep(AvailableVerbsStep({}, allowlistDir), schemaDir)

\* content of every dbt-{verb}.yml default allowlist document of the model
VerbAllowlistDoc == DictV([f \in {"threads"} |-> TRUE])

\* DefaultsConfigProvider.get_flag_allowlist: open() the document of the
\* scope and return what yaml.load gives (None for an empty document)
DefaultsGetFlagAllowlist(scope, allowlistDir, globalDoc) ==
    IF scope.tag = "global"
    THEN IF globalDoc.tag = "missing"
         THEN RaiseV("FileNotFoundError", "DefaultsConfigProvider: open(global.yml)")
         ELSE globalDoc
    ELSE IF scope.v \in allowlistDir
         THEN VerbAllowlistDoc
         ELSE RaiseV("FileNotFoundError", "DefaultsConfigProvider: open(dbt-{verb}.yml)")

DefaultsQuery(method, scope, av, allowlistDir, globalDoc, schemaDir) ==
    CASE method = "get_allowed_verbs" ->
            SetV(DefaultsAvailableVerbs(allowlistDir, schemaDir))
      [] method = "get_flag_allowlist" ->
            DefaultsGetFlagAllowlist(scope, allowlistDir, globalDoc)
      [] method \in VerbListMethods \ {"get_allowed_verbs"} -> SetV(av)
      [] OTHER -> NoneV

-----------------------------------------------------------------------------
\* Providers as objects

DefaultsProvider == [kind |-> "defaults"]
EnvironmentProvider == [kind |-> "environment"]
\* the test double of tests/.../test_abc.py: every method returns
\* self.responses.get(<name>), whatever the scope
MockProvider(responses) == [kind |-> "mock", responses |-> responses]

MockField(method) ==
    CASE method = "get_allowed_verbs" -> "allowed_verbs"
      [] method = "get_env_variables" -> "env_variables"
      [] method = "get_env_variables_apply_global" -> "env_variables_apply_global"
      [] method = "get_flag_allowlist" -> "flag_allowlist"
      [] method = "get_flag_allowlist_apply_global" -> "flag_allowlist_apply_global"
      [] method = "get_flag_internal_values" -> "flag_internal_values"
      [] method = "get_flag_internal_values_apply_global" ->
            "flag_internal_values_apply_global"
      [] method = "get_projects_root_dir" -> "projects_root_dir"
      [] method = "get_variables" -> "variables"
      [] method = "get_variables_apply_global" -> "variables_apply_global"

MockQuery(p, method) ==
    IF MockField(method) \in DOMAIN p.responses
    THEN p.responses[MockField(method)]
    ELSE NoneV

ScopeGlobal == [tag |-> "global"]
ScopeVerb(v) == [tag |-> "verb", v |-> v]

\* getattr(provider, method_name)(**kwargs): passVerb tells whether `verb`
\* is among the keyword arguments.  A keyword the method does not declare,
\* or a missing required one, is a TypeError.
Query(p, method, scope, passVerb, av) ==
    IF passVerb # (method \in ScopedMethods)
    THEN RaiseV("TypeError", "keyword arguments of provider method")
    ELSE CASE p.kind = "defaults" ->
                DefaultsQuery(method, scope, av, allowlist_dir, allowlist_global,
                              schema_dir)
           [] p.kind = "environment" -> EnvQuery(environ, method, av)
           [] OTHER -> MockQuery(p, method)

-----------------------------------------------------------------------------
\* DbtConfig.create_instance (config/config.py)

\* longest provider list a caller passes to create_instance
MaxListLen == 2

\* the table _load iterates over (config.py:50-61)
AttrTable == <<
    [attr |-> "allowed_verbs", scope |-> "global",
     method |-> "get_allowed_verbs"],
    [attr |-> "flag_allowlists", scope |-> "verb",
     method |-> "get_flag_allowlist"],
    [attr |-> "flag_allowlists_apply_global", scope |-> "verb",
     method |-> "get_flag_allowlist_apply_global"],
    [attr |-> "env_variables", scope |-> "verb",
     method |-> "get_env_variables"],
    [attr |-> "env_variables_apply_global", scope |-> "global",
     method |-> "get_env_variables_apply_global"],
    [attr |-> "flag_internal_values", scope |-> "verb",
     method |-> "get_flag_internal_values"],
    [attr |-> "flag_internal_values_apply_global", scope |-> "global",
     method |-> "get_flag_internal_values_apply_global"],
    [attr |-> "projects_root_dir", scope |-> "global",
     method |-> "get_projects_root_dir"],
    [attr |-> "variables", scope |-> "verb",
     method |-> "get_variables"],
    [attr |-> "variables_apply_global", scope |-> "global",
     method |-> "get_variables_apply_global"] >>

\* the abstract methods of BaseConfigProvider (abc.py:10-201)
AbstractMethods == VerbListMethods \cup ScopedMethods \cup {"get_projects_root_dir"}

\* the methods each provider class defines: IniFileConfigProvider has none of
\* the four get_*_apply_global methods (ini_file.py:55-238)
DefinedMethods(kind) ==
    IF kind = "ini_file"
    THEN {"get_allowed_verbs", "get_flag_allowlist", "get_flag_internal_values",
          "get_env_variables", "get_projects_root_dir", "get_variables"}
    ELSE AbstractMethods

\* calling a provider class: a subclass of abc.ABC that leaves an abstract
\* method undefined cannot be instantiated
Instantiate(kind) ==
    IF AbstractMethods \subseteq DefinedMethods(kind)
    THEN [kind |-> kind]
    ELSE RaiseV("TypeError", "IniFileConfigProvider(): abstract class")

RECURSIVE BuildProviders(_, _)
BuildProviders(kinds, built) ==
    IF kinds = <<>> THEN [tag |-> "list", l |-> built]
    ELSE IF ~(AbstractMethods \subseteq DefinedMethods(Head(kinds)))
    THEN Instantiate(Head(kinds))
    ELSE BuildProviders(Tail(kinds), Append(built, Instantiate(Head(kinds))))

\* a get_providers whose result depends on what an earlier call ended with
GetProvidersAfterFailure ==
    IF outcomes = <<>>
    THEN RaiseV("TypeError", "IniFileConfigProvider(): abstract class")
    ELSE [tag |-> "config", cfg |-> EmptyDict]

\* get_providers() (providers/__init__.py:29-33): the three classes are
\* called from left to right, and the first exception ends the call.
GetProviders == BuildProviders(<<"defaults", "ini_file", "environment">>, <<>>)

\* the list create_instance goes on with (config.py:31-36)
EnsureDefaults(ps) ==
    IF \E i \in 1..Len(ps) : ps[i].kind = "defaults"
    THEN ps
    ELSE <<DefaultsProvider>> \o ps

\* what every provider of the list answers to one method call
Responses(ps, method, scope, passVerb, av) ==
    [i \in 1..Len(ps) |-> Query(ps[i], method, scope, passVerb, av)]

RECURSIVE SetToSeq(_)
SetToSeq(S) ==
    IF S = {} THEN <<>>
    ELSE LET x == CHOOSE y \in S : TRUE IN <<x>> \o SetToSeq(S \ {x})

\* [None, *available_verbs]
ScopeList(av) ==
    <<ScopeGlobal>> \o [i \in 1..Cardinality(av) |-> ScopeVerb(SetToSeq(av)[i])]

\* key = verb or "global"
ScopeKey(scope) == IF scope.tag = "global" THEN S_global ELSE scope.v

\* The `elif scope == "global"` branch of _load (config.py:71-76).
LoadGlobal(as, ps, e, av) ==
    LET resps == Responses(ps, e.method, ScopeGlobal, FALSE, av)
        r == LoadAttribute(resps)
    IN  [attrs |-> IF r.out.tag = "raise" THEN as
                   ELSE [a \in (DOMAIN as) \cup {e.attr} |->
                            IF a = e.attr THEN r.out ELSE as[a]],
         exc |-> IF r.out.tag = "raise" THEN r.out ELSE NoneV,
         queried |-> SubSeq(resps, 1, r.n)]

\* The `if scope == "verb"` branch of _load (config.py:62-70), from the
\* k-th scope on.  The right-hand side is evaluated first; the assignment
\* then subscripts attrs[attr], a KeyError when attrs has no such key.
RECURSIVE LoadVerbScoped(_, _, _, _, _, _)
LoadVerbScoped(as, ps, e, av, scopes, k) ==
    IF k > Len(scopes)
    THEN [attrs |-> as, exc |-> NoneV, queried |-> <<>>]
    ELSE LET resps == Responses(ps, e.method, scopes[k], TRUE, av)
             r == LoadAttribute(resps)
         IN  IF r.out.tag = "raise"
             THEN [attrs |-> as, exc |-> r.out, queried |-> SubSeq(resps, 1, r.n)]
             ELSE IF e.attr \notin DOMAIN as
             THEN [attrs |-> as, exc |-> RaiseV("KeyError", "attrs[attr][key] = ..."),
                   queried |-> SubSeq(resps, 1, r.n)]
             ELSE LoadVerbScoped(
                    [as EXCEPT ![e.attr] =
                        DictV([sk \in (DOMAIN @.d) \cup {ScopeKey(scopes[k])} |->
                                 IF sk = ScopeKey(scopes[k]) THEN r.out ELSE @.d[sk]])],
                    ps, e, av, scopes, k + 1)

\* cls._validate(attrs) as create_instance calls it (config.py:39):
\* _validate is declared (cls, providers, attrs), so binding the single
\* argument raises TypeError before the body runs.
ValidateCall(as) ==
    RaiseV("TypeError", "_validate() missing 1 required positional argument: 'attrs'")

\* ---- inputs

MockResponsesPool ==
    {[allowed_verbs |-> av, flag_allowlist |-> rest[1],
      flag_internal_values |-> rest[2], projects_root_dir |-> rest[3]] :
        av \in {NoneV, SetV({V_ls})},
        rest \in {<<NoneV, NoneV, NoneV>>,
                  <<DictV([f \in {"threads"} |-> FALSE]),
                    DictV([f \in {"threads"} |-> StrV(<<"4">>)]),
                    PathV("/projects")>>,
                  <<NoneV,
                    DictV([f \in {"threads"} |-> StrV(<<"x">>)]),
                    PathV("/projects")>>}}

ProviderPool ==
    {DefaultsProvider, EnvironmentProvider}
    \cup {MockProvider(r) : r \in MockResponsesPool}

EnvironPool ==
    {EmptyDict}
    \cup {[n \in {"DBT_ALLOWED_VERBS"} |-> s] :
            s \in {V_ls, <<"l", "s", ",", "r", "u", "n">>, <<"*">>, <<"R", "U", "N">>}}

GlobalDocPool ==
    {[tag |-> "missing"], NoneV, DictV([f \in {"debug"} |-> TRUE])}

StartCI ==
    /\ providers_arg \in
         {NoneV} \cup {[tag |-> "list", l |-> l] : l \in SeqsUpTo(MaxListLen, ProviderPool)}
    /\ environ \in EnvironPool
    /\ allowlist_dir \in SUBSET VerbTokens
    /\ allowlist_global \in GlobalDocPool
    /\ schema_dir \in SUBSET VerbTokens
    /\ pc = "start"
    /\ providers = <<>>
    /\ available_verbs = {}
    /\ attrs = EmptyDict
    /\ idx = 1
    /\ queried = <<>>
    /\ result = NoneV

\* no resolution is running
IdleCI ==
    /\ providers_arg = NoneV
    /\ environ = EmptyDict
    /\ allowlist_dir = {}
    /\ allowlist_global = NoneV
    /\ schema_dir = {}
    /\ pc = "idle"
    /\ providers = <<>>
    /\ available_verbs = {}
    /\ attrs = EmptyDict
    /\ idx = 1
    /\ queried = <<>>
    /\ result = NoneV

\* create_instance up to the first statements of _load (config.py:31-49):
\* settle the provider list, then ask its first element for the available
\* verbs.  Only DefaultsConfigProvider has an available_verbs method.
CreateInstance ==
    /\ pc = "start"
    /\ IF providers_arg.tag = "none" /\ GetProviders.tag # "list"
       THEN /\ providers' = <<>>
            /\ available_verbs' = {}
            /\ result' = GetProviders
            /\ pc' = "done"
       ELSE LET ps == EnsureDefaults(IF providers_arg.tag = "none"
                                     THEN GetProviders.l
                                     ELSE providers_arg.l)
            IN  /\ providers' = ps
                /\ IF ps[1].kind = "defaults"
                   THEN /\ available_verbs' =
                              DefaultsAvailableVerbs(allowlist_dir, schema_dir)
                        /\ result' = NoneV
                        /\ pc' = "load"
                   ELSE /\ available_verbs' = {}
                        /\ result' = RaiseV("AttributeError",
                                            "providers[0].available_verbs")
                        /\ pc' = "done"
    /\ UNCHANGED <<attrs, idx, queried, varsIn, varsLA, varsPR, varsNew, varsLate>>

\* One pass of the for loop of _load (config.py:50-76); after the last
\* entry, the return of _load and the rest of create_instance
\* (config.py:78, 39-40).
LoadStep ==
    /\ pc = "load"
    /\ LET e == AttrTable[idx]
           out == IF e.scope = "verb"
                  THEN LoadVerbScoped(attrs, providers, e, available_verbs,
                                      ScopeList(available_verbs), 1)
                  ELSE LoadGlobal(attrs, providers, e, available_verbs)
           validated == ValidateCall(out.attrs)
       IN  /\ attrs' = out.attrs
           /\ queried' = queried \o out.queried
           /\ IF out.exc.tag = "raise"
              THEN /\ result' = out.exc
                   /\ pc' = "done"
                   /\ idx' = idx
              ELSE IF idx < Len(AttrTable)
              THEN /\ result' = result
                   /\ pc' = "load"
                   /\ idx' = idx + 1
              ELSE /\ result' = IF validated.tag = "raise"
                                THEN validated
                                ELSE [tag |-> "config", cfg |-> validated.d]
                   /\ pc' = "done"
                   /\ idx' = idx
    /\ UNCHANGED <<providers, available_verbs, varsIn, varsLA, varsPR, varsNew, varsLate>>

-----------------------------------------------------------------------------
\* Repeated resolution and the loader singleton

\* how many times create_instance is called over the same sources
MaxRuns == 2

\* how many times get_config is called
MaxCalls == 3

\* no loader, no earlier call
IdleGC ==
    /\ outcomes = <<>>
    /\ gc_instance = NoneV
    /\ gc_pc = "idle"
    /\ gc_attempts = 0
    /\ gc_log = <<>>

\* create_instance called once more with the same argument, the sources
\* unchanged: a new call starts from fresh locals (config.py:29-49)
CallAgain ==
    /\ pc = "done"
    /\ Len(outcomes) + 1 < MaxRuns
    /\ outcomes' = Append(outcomes, result)
    /\ pc' = "start"
    /\ providers' = <<>>
    /\ available_verbs' = {}
    /\ attrs' = EmptyDict
    /\ idx' = 1
    /\ queried' = <<>>
    /\ result' = NoneV
    /\ UNCHANGED <<gc_instance, gc_pc, gc_attempts, gc_log, varsIn, varsLA, varsPR, varsCall, varsLate>>

\* a process in which get_config has not been called yet
StartGC ==
    /\ providers_arg = NoneV
    /\ environ \in EnvironPool
    /\ allowlist_dir \in SUBSET VerbTokens
    /\ allowlist_global \in GlobalDocPool
    /\ schema_dir \in SUBSET VerbTokens
    /\ pc = "idle"
    /\ providers = <<>>
    /\ available_verbs = {}
    /\ attrs = EmptyDict
    /\ idx = 1
    /\ queried = <<>>
    /\ result = NoneV
    /\ outcomes = <<>>
    /\ gc_instance = NoneV
    /\ gc_pc = "ready"
    /\ gc_attempts = 0
    /\ gc_log = <<>>

\* get_config, up to the call of create_instance (config.py:130-131); with
\* an instance in the slot it returns it at once (config.py:132)
GetConfigCall ==
    /\ gc_pc = "ready"
    /\ Len(gc_log) < MaxCalls
    /\ IF gc_instance = NoneV
       THEN /\ gc_pc' = "resolving"
            /\ gc_attempts' = gc_attempts + 1
            /\ gc_log' = gc_log
            /\ pc' = "start"
            /\ providers' = <<>>
            /\ available_verbs' = {}
            /\ attrs' = EmptyDict
            /\ idx' = 1
            /\ queried' = <<>>
            /\ result' = NoneV
       ELSE /\ gc_log' = Append(gc_log, gc_instance)
            /\ UNCHANGED <<gc_pc, gc_attempts, varsCI>>
    /\ UNCHANGED <<outcomes, gc_instance, varsIn, varsLA, varsPR, varsCall, varsLate>>

\* a get_config that stores whatever the resolution ended with
GetConfigReturnStoreAny ==
    /\ gc_pc = "resolving"
    /\ pc = "done"
    /\ gc_instance' = result
    /\ gc_log' = Append(gc_log, result)
    /\ gc_pc' = "ready"
    /\ UNCHANGED <<outcomes, gc_attempts, varsIn, varsCI, varsLA, varsPR, varsCall, varsLate>>

\* get_config after create_instance ended (config.py:131-132): the
\* assignment to _instance happens only if create_instance returned
GetConfigReturn ==
    /\ gc_pc = "resolving"
    /\ pc = "done"
    /\ gc_instance' = IF result.tag = "raise" THEN gc_instance ELSE result
    /\ gc_log' = Append(gc_log, result)
    /\ gc_pc' = "ready"
    /\ UNCHANGED <<outcomes, gc_attempts, varsIn, varsCI, varsLA, varsPR, varsCall, varsLate>>

\* the groups of variables added for the later operations, at rest
\* no single operation is being called
IdleCall ==
    /\ call_op = "idle"
    /\ call_args = NoneV
    /\ call_result = NoneV

IdleNew == IdleGC /\ IdleCall

-----------------------------------------------------------------------------
\* BoolParser.parse (app/utils/bool.py) and the schema's boolean coercer

BoolV(b) == [tag |-> "bool", b |-> b]

\* characters str.strip() removes
Whitespace == {" ", "\t"}

\* str.lower()
LowerOf ==
    [c \in {"A", "B", "C", "D", "E", "F", "G", "H", "I", "J", "K", "L", "M",
            "N", "O", "P", "Q", "R", "S", "T", "U", "V", "W", "X", "Y", "Z"} |->
        CASE c = "A" -> "a" [] c = "B" -> "b" [] c = "C" -> "c" [] c = "D" -> "d"
          [] c = "E" -> "e" [] c = "F" -> "f" [] c = "G" -> "g" [] c = "H" -> "h"
          [] c = "I" -> "i" [] c = "J" -> "j" [] c = "K" -> "k" [] c = "L" -> "l"
          [] c = "M" -> "m" [] c = "N" -> "n" [] c = "O" -> "o" [] c = "P" -> "p"
          [] c = "Q" -> "q" [] c = "R" -> "r" [] c = "S" -> "s" [] c = "T" -> "t"
          [] c = "U" -> "u" [] c = "V" -> "v" [] c = "W" -> "w" [] c = "X" -> "x"
          [] c = "Y" -> "y" [] c = "Z" -> "z"]

StrLower(s) ==
    [i \in 1..Len(s) |-> IF s[i] \in DOMAIN LowerOf THEN LowerOf[s[i]] ELSE s[i]]

RECURSIVE LStrip(_)
LStrip(s) == IF Len(s) >= 1 /\ s[1] \in Whitespace THEN LStrip(Tail(s)) ELSE s

RECURSIVE RStrip(_)
RStrip(s) ==
    IF Len(s) >= 1 /\ s[Len(s)] \in Whitespace
    THEN RStrip(SubSeq(s, 1, Len(s) - 1))
    ELSE s

StrStrip(s) == RStrip(LStrip(s))

\* BoolParser.truthies / falsies (bool.py:7-8)
Truthies == {<<"t", "r", "u", "e">>, <<"y", "e", "s">>, <<"1">>, <<"o", "n">>}
Falsies == {<<"f", "a", "l", "s", "e">>, <<"n", "o">>, <<"0">>, <<"o", "f", "f">>}

\* BoolParser.valid_values (bool.py:18)
ValidValues == Truthies \cup Falsies

\* a parse that compares without stripping
BoolParserParseNoStrip(value, default) ==
    IF value = NoneV THEN BoolV(default)
    ELSE LET str_value == StrLower(value.s)
         IN  IF str_value \notin ValidValues
             THEN RaiseV("ValueError", "BoolParser.parse")
             ELSE BoolV(str_value \in Truthies)

\* BoolParser.parse (bool.py:34-40)
BoolParserParse(value, default) ==
    IF value = NoneV THEN BoolV(default)
    ELSE LET str_value == StrLower(StrStrip(value.s))
         IN  IF str_value \notin ValidValues
             THEN RaiseV("ValueError", "BoolParser.parse")
             ELSE BoolV(str_value \in Truthies)

\* str(None)
S_None == <<"N", "o", "n", "e">>

\* DbtFlagsSchema._normalize_coerce_boolean (jsonschema/__init__.py:140-148)
NormalizeCoerceBoolean(value) ==
    LET str_value == StrLower(StrStrip(IF value = NoneV THEN S_None ELSE value.s))
    IN  IF str_value \notin ValidValues
        THEN RaiseV("ValueError", "_normalize_coerce_boolean")
        ELSE BoolV(str_value \in Truthies)

\* longest string of the exhaustive part of the inputs
MaxBoolLen == 3

BoolAlphabet == {" ", "\t", "o", "n", "O", "N", "f", "1", "0"}

\* the accepted tokens as written, upper-cased and padded, and near misses
BoolSamples ==
    LET upper(t) == [i \in 1..Len(t) |->
                        IF \E c \in DOMAIN LowerOf : LowerOf[c] = t[i]
                        THEN CHOOSE c \in DOMAIN LowerOf : LowerOf[c] = t[i]
                        ELSE t[i]]
    IN  UNION {{t, upper(t), <<" ">> \o t \o <<"\t">>, t \o <<"e">>,
                SubSeq(t, 1, 1) \o <<" ">> \o SubSeq(t, 2, Len(t))} : t \in ValidValues}
        \cup {<<"e", "n", "a", "b", "l", "e", "d">>}

BoolInputs ==
    {NoneV} \cup {StrV(x) : x \in SeqsUpTo(MaxBoolLen, BoolAlphabet) \cup BoolSamples}

\* a value to parse, and the default the caller passes if any
StartBP ==
    /\ call_op = "ready"
    /\ call_args \in [value : BoolInputs, default : {"unset", "True", "False"}]
    /\ call_result = NoneV

\* BoolParser.parse(value) or BoolParser.parse(value, default)
Parse ==
    /\ call_op = "ready"
    /\ call_op' = "parse"
    /\ call_result' =
          BoolParserParse(call_args.value,
                          IF call_args.default = "unset" THEN FALSE
                          ELSE call_args.default = "True")
    /\ UNCHANGED <<call_args, varsIn, varsCI, varsLA, varsPR, varsGC, varsLate>>

\* the coercer the schema applies to a boolean flag
CoerceBoolean ==
    /\ call_op = "ready"
    /\ call_op' = "coerce_boolean"
    /\ call_result' = NormalizeCoerceBoolean(call_args.value)
    /\ UNCHANGED <<call_args, varsIn, varsCI, varsLA, varsPR, varsGC, varsLate>>

-----------------------------------------------------------------------------
\* DbtFlagsSchema (app/dbt/config/jsonschema/__init__.py)

\* an ExceptionGroup and the flags its sub-exceptions name, one each
GroupV(at, subs) == [tag |-> "raise", exc |-> "ExceptionGroup", at |-> at, subs |-> subs]

\* convert_case.snake_case on a lower-case kebab- or snake-case name
SnakeCase(s) == [i \in 1..Len(s) |-> IF s[i] = "-" THEN "_" ELSE s[i]]

\* flag names, as a source may spell them
F_ab == <<"a", "b">>
F_a_b == <<"a", "_", "b">>
F_a_dash_b == <<"a", "-", "b">>
F_zz == <<"z", "z">>

FlagSpellings == {F_ab, F_a_b, F_a_dash_b, F_zz}
SchemaFlagNames == {F_ab, F_a_b, F_zz}

\* read_schema (jsonschema/__init__.py:52-82) over the YAML documents of
\* the schema directory.  global_yml is global.yml: its "properties"
\* mapping (flag -> definition) and, if it has an "allOf" list, the
\* properties of allOf[1]; verb_ymls are the dbt-{verb}.yml documents.
\* The result is the "properties" of the schema returned.  For a verb,
\* line 64 opens global.yml again, not the document of the verb, and
\* line 69 looks up "allOf" in it.
ReadSchemaDocument(scope, merge_global, global_yml, verb_ymls) ==
    IF scope.tag = "global"
    THEN DictV(global_yml.properties)
    ELSE LET verb_schema == global_yml
         IN  IF verb_schema.allOf.tag = "none"
             THEN RaiseV("KeyError", "verb_schema['allOf']")
             ELSE IF ~merge_global
             THEN DictV(verb_schema.allOf.d)
             ELSE DictV(DictMerge(global_yml.properties, verb_schema.allOf.d))

\* read_schema when global.yml is {properties: ...} with no "allOf" entry
\* (the shape the comments of lines 67-68 give it), as the set of flags of
\* the schema returned
ReadSchema(scope, merge_global, global_flags, verb_flags) ==
    LET schema == ReadSchemaDocument(
                      scope, merge_global,
                      [properties |-> [f \in global_flags |-> "string"], allOf |-> NoneV],
                      <<>>)
    IN  IF schema.tag = "raise" THEN schema ELSE SetV(DOMAIN schema.d)

\* get_available_flags (jsonschema/__init__.py:34)
GetAvailableFlags(scope, global_flags, verb_flags) ==
    ReadSchema(scope, FALSE, global_flags, verb_flags)

\* validate_flag_availability (jsonschema/__init__.py:115-133); flags is
\* the key set of the mapping passed
ValidateFlagAvailability(scope, flags, global_flags, verb_flags) ==
    LET available_flags == GetAvailableFlags(scope, global_flags, verb_flags)
    IN  IF available_flags.tag = "raise" THEN available_flags
        ELSE IF ~({SnakeCase(flag) : flag \in flags} \subseteq available_flags.s)
        THEN LET unsupported_flags == flags \ available_flags.s
             IN  GroupV("validate_flag_availability", unsupported_flags)
        ELSE NoneV

\* a mapping to validate and the schema documents on disk
StartFA ==
    /\ call_op = "ready"
    /\ call_args \in [scope : {ScopeGlobal, ScopeVerb(V_run)},
                      flags : SUBSET FlagSpellings,
                      global_flags : SUBSET SchemaFlagNames,
                      verb_flags : SUBSET {F_ab, F_zz}]
    /\ call_result = NoneV

\* DbtFlagsSchema.validate_flag_availability(verb, message, flag_message, flags)
ValidateFlagAvailabilityCall ==
    /\ call_op = "ready"
    /\ call_op' = "validate_flag_availability"
    /\ call_result' = ValidateFlagAvailability(call_args.scope, call_args.flags,
                                               call_args.global_flags,
                                               call_args.verb_flags)
    /\ UNCHANGED <<call_args, varsIn, varsCI, varsLA, varsPR, varsGC, varsLate>>

\* DbtFlagsSchema.get_available_flags(verb)
GetAvailableFlagsCall ==
    /\ call_op = "ready"
    /\ call_op' = "get_available_flags"
    /\ call_result' = GetAvailableFlags(call_args.scope, call_args.global_flags,
                                        call_args.verb_flags)
    /\ UNCHANGED <<call_args, varsIn, varsCI, varsLA, varsPR, varsGC, varsLate>>

\* ---- read_schema over whole documents

FlagDefinitions == {"string", "boolean"}

\* the "properties" mappings of the documents of the model
PropertyMaps == UNION {[fs -> FlagDefinitions] : fs \in SUBSET {F_ab, F_zz}}

StartRS ==
    /\ call_op = "ready"
    /\ call_args \in
          [scope : {ScopeGlobal, ScopeVerb(V_run), ScopeVerb(V_ls)},
           merge_global : BOOLEAN,
           global_yml : [properties : PropertyMaps,
                         allOf : {NoneV} \cup {DictV(m) : m \in PropertyMaps}],
           verb_ymls : [{V_run, V_ls} -> PropertyMaps]]
    /\ call_result = NoneV

\* DbtFlagsSchema.read_schema(verb, merge_global)
ReadSchemaCall ==
    /\ call_op = "ready"
    /\ call_op' = "read_schema"
    /\ call_result' = ReadSchemaDocument(call_args.scope, call_args.merge_global,
                                         call_args.global_yml, call_args.verb_ymls)
    /\ UNCHANGED <<call_args, varsIn, varsCI, varsLA, varsPR, varsGC, varsLate>>

-----------------------------------------------------------------------------
\* Casting and validation of the internal flag values

\* the type the schema declares for the flags of the model
SchemaType(flag) ==
    IF flag = "threads" THEN "integer"
    ELSE IF flag = "debug" THEN "boolean"
    ELSE "string"

IntV(n) == [tag |-> "int", n |-> n]
Digits == <<"0", "1", "2", "3", "4", "5", "6", "7", "8", "9">>
DigitValue(c) == (CHOOSE i \in 1..10 : Digits[i] = c) - 1
IsDigits(s) == Len(s) >= 1 /\ \A i \in 1..Len(s) : \E j \in 1..10 : Digits[j] = s[i]

RECURSIVE IntOfDigits(_, _)
IntOfDigits(s, n) ==
    IF n = 0 THEN 0 ELSE 10 * IntOfDigits(s, n - 1) + DigitValue(s[n])

\* the first statement of _load_internal_values (app/dbt/config.py:226):
\* it looks _load_raw_internal_values_from_ini up on DbtConfig, but the
\* method is defined on DbtFlagsConfig (app/dbt/config.py:335)
LoadRawInternalValuesFromIni ==
    RaiseV("AttributeError", "DbtConfig._load_raw_internal_values_from_ini")

\* one pass of the casting loop (app/dbt/config.py:237-270): the cast
\* value, or the error appended to `errors`.  str has no trim(), so the
\* boolean branch ends in `except Exception` whatever the value is.
CastFlag(flag, value) ==
    LET expected_type == SchemaType(flag)
    IN  IF expected_type = "boolean"
        THEN RaiseV("TypeError", "value.trim()")
        ELSE IF expected_type = "integer"
        THEN IF IsDigits(value.s) THEN IntV(IntOfDigits(value.s, Len(value.s)))
             ELSE RaiseV("ValueError", "int()")
        ELSE value

\* DbtFlagsConfig._load_internal_values (app/dbt/config.py:226-284), raw
\* being the values its sources hold for the scope
LoadInternalValues(raw) ==
    LET ini_flag_raw_values == LoadRawInternalValuesFromIni
    IN  IF ini_flag_raw_values.tag = "raise" THEN ini_flag_raw_values
        ELSE LET errors == {f \in DOMAIN raw : CastFlag(f, raw[f]).tag = "raise"}
             IN  IF errors # {}
                 THEN GroupV("_load_internal_values", errors)
                 ELSE DictV([f \in DOMAIN raw |-> CastFlag(f, raw[f])])

\* DbtConfig._validate(providers, attrs) (config/config.py:100-121): the
\* missing root directory only builds an error object; the loop then
\* calls the classmethod create_instance(verb, merge_global), declared
\* without cls, with a positional and a keyword argument
Validate(as) ==
    RaiseV("TypeError", "DbtFlagsSchema.create_instance(verb, merge_global=True)")

RawValuePool == {StrV(<<"4">>), StrV(<<"x">>), StrV(<<"o", "n">>)}
InternalFlags == {"threads", "debug", "target"}

\* the raw internal values of one scope
StartCO ==
    /\ call_op = "ready"
    /\ call_args \in [scope : {ScopeGlobal, ScopeVerb(V_run)},
                      raw : UNION {[fs -> RawValuePool] : fs \in SUBSET InternalFlags}]
    /\ call_result = NoneV

\* DbtFlagsConfig._load_internal_values(verb)
LoadInternalValuesCall ==
    /\ call_op = "ready"
    /\ call_op' = "load_internal_values"
    /\ call_result' = LoadInternalValues(call_args.raw)
    /\ UNCHANGED <<call_args, varsIn, varsCI, varsLA, varsPR, varsGC, varsLate>>

\* DbtConfig._validate(providers, attrs), attrs holding the raw values
ValidateDirectCall ==
    /\ call_op = "ready"
    /\ call_op' = "validate"
    /\ call_result' = Validate(call_args.raw)
    /\ UNCHANGED <<call_args, varsIn, varsCI, varsLA, varsPR, varsGC, varsLate>>

-----------------------------------------------------------------------------
\* Verb-list options of the file and environment providers

\* Positions right after one repetition of  ([a-z][a-z\-]+|[*]),?  that
\* starts at position i of s.
FileVerbItemEnds(s, i) ==
    IF i > Len(s) THEN {}
    ELSE LET ends ==
                 IF s[i] = "*" THEN {i}
                 ELSE IF s[i] \notin Lower THEN {}
                 ELSE {e \in (i + 1)..Len(s) :
                          \A k \in (i + 1)..e : s[k] \in Lower \cup {"-"}}
         IN  {e + 1 : e \in ends}
             \cup {e + 2 : e \in {x \in ends : x < Len(s) /\ s[x + 1] = ","}}

RECURSIVE FileVerbReach(_, _, _)
FileVerbReach(s, frontier, seen) ==
    LET new == UNION {FileVerbItemEnds(s, i) : i \in frontier} \ seen
    IN  IF new = {} THEN seen ELSE FileVerbReach(s, new, seen \cup new)

\* re.match(r"^(([a-z][a-z\-]+|[*]),?)+$", s)
FileVerbListMatches(s) == (Len(s) + 1) \in FileVerbReach(s, {1}, {})

\* _get_verbs_from_option (file.py:462-485); option is None when there is
\* no parsed file or the section has no such option, else its string
GetVerbsFromOption(option, av) ==
    IF option.tag = "none" THEN NoneV
    ELSE IF ~FileVerbListMatches(option.s)
    THEN RaiseV("ValueError", "FileConfigProvider: verb list format")
    ELSE LET split == SplitComma(option.s)
             value == IF <<"*">> \in split
                      THEN (split \ {<<"*">>}) \cup av
                      ELSE split
         IN  IF ~(value \subseteq av)
             THEN RaiseV("ValueError", "FileConfigProvider: unsupported verbs")
             ELSE SetV(value)

\* longest value of a verb-list option
MaxVerbListLen == 5

VerbListAlphabet == {"l", "s", ",", "*", "L"}

V_sl == <<"s", "l">>

\* a verb-list option: unset, or a string (maybe empty)
StartVL ==
    /\ call_op = "ready"
    /\ call_args \in [value : {NoneV} \cup
                              {StrV(x) : x \in SeqsUpTo(MaxVerbListLen, VerbListAlphabet)},
                      available_verbs : SUBSET {V_ls, V_sl}]
    /\ call_result = NoneV

\* EnvironmentConfigProvider.get_allowed_verbs(available_verbs), with
\* DBT_ALLOWED_VERBS unset or set to the value (environment.py:38)
EnvVerbList ==
    /\ call_op = "ready"
    /\ call_op' = "env_verb_list"
    /\ call_result' =
          GetVerbsFromEnvironmentVariable(
              IF call_args.value.tag = "none" THEN EmptyDict
              ELSE [n \in {"DBT_ALLOWED_VERBS"} |-> call_args.value.s],
              "DBT_ALLOWED_VERBS", call_args.available_verbs)
    /\ UNCHANGED <<call_args, varsIn, varsCI, varsLA, varsPR, varsGC, varsLate>>

\* FileConfigProvider.get_allowed_verbs(available_verbs), the parsed file
\* having [dbt].allowed_verbs or not
FileVerbList ==
    /\ call_op = "ready"
    /\ call_op' = "file_verb_list"
    /\ call_result' = GetVerbsFromOption(call_args.value, call_args.available_verbs)
    /\ UNCHANGED <<call_args, varsIn, varsCI, varsLA, varsPR, varsGC, varsLate>>

-----------------------------------------------------------------------------
\* get_flag_allowlist of the three providers

DigitChars == {"0", "1", "2", "3", "4", "5", "6", "7", "8", "9"}

\* Positions right after one repetition of  [a-z][a-z0-9\-]+,?  that
\* starts at position i of s.
FlagItemEnds(s, i) ==
    IF i > Len(s) THEN {}
    ELSE IF s[i] \notin Lower THEN {}
    ELSE LET ends == {e \in (i + 1)..Len(s) :
                         \A k \in (i + 1)..e : s[k] \in Lower \cup DigitChars \cup {"-"}}
         IN  {e + 1 : e \in ends}
             \cup {e + 2 : e \in {x \in ends : x < Len(s) /\ s[x + 1] = ","}}

RECURSIVE FlagListReach(_, _, _)
FlagListReach(s, frontier, seen) ==
    LET new == UNION {FlagItemEnds(s, i) : i \in frontier} \ seen
    IN  IF new = {} THEN seen ELSE FlagListReach(s, new, seen \cup new)

\* re.match(r"^([a-z][a-z0-9\-]+,?)+$", s)
FlagListMatches(s) == (Len(s) + 1) \in FlagListReach(s, {1}, {})

\* _parse_sub_allowlist (environment.py:135-161); value is os.getenv of
\* the variable, enable is `"ENABLE" in variable`
ParseSubAllowlist(value, enable, scope, global_flags, verb_flags) ==
    IF value.tag = "none" THEN DictV(EmptyDict)
    ELSE IF ~FlagListMatches(value.s)
    THEN RaiseV("ValueError", "EnvironmentConfigProvider: flag list format")
    ELSE LET sub_allowlist ==
                 [k \in {SnakeCase(flag) : flag \in SplitComma(value.s)} |-> enable]
             checked == ValidateFlagAvailability(scope, DOMAIN sub_allowlist,
                                                 global_flags, verb_flags)
         IN  IF checked.tag = "raise" THEN checked ELSE DictV(sub_allowlist)

\* EnvironmentConfigProvider.get_flag_allowlist (environment.py:163-171);
\* enable and disable are the values of the two variables of the scope
EnvGetFlagAllowlist(scope, enable, disable, global_flags, verb_flags) ==
    LET enabled == ParseSubAllowlist(enable, TRUE, scope, global_flags, verb_flags)
    IN  IF enabled.tag = "raise" THEN enabled
        ELSE LET disabled == ParseSubAllowlist(disable, FALSE, scope,
                                               global_flags, verb_flags)
             IN  IF disabled.tag = "raise" THEN disabled
                 ELSE LET allowlist == DictMerge(enabled.d, disabled.d)
                      IN  IF DOMAIN allowlist = {} THEN NoneV ELSE DictV(allowlist)

\* FileConfigProvider.get_flag_allowlist (file.py:261-286); section is
\* what _read_ini_section gives: None, or the options of the section
FileGetFlagAllowlist(scope, section, global_flags, verb_flags) ==
    IF section.tag = "none" \/ DOMAIN section.d = {} THEN NoneV
    ELSE IF \E flag \in DOMAIN section.d :
                BoolParserParse(section.d[flag], FALSE).tag = "raise"
    THEN RaiseV("ParsingError", "FileConfigProvider: not a boolean value")
    ELSE LET allowlist ==
                 [k \in {SnakeCase(flag) : flag \in DOMAIN section.d} |->
                     BoolParserParse(
                         section.d[CHOOSE flag \in DOMAIN section.d : SnakeCase(flag) = k],
                         FALSE).b]
             checked == ValidateFlagAvailability(scope, DOMAIN allowlist,
                                                 global_flags, verb_flags)
         IN  IF checked.tag = "raise" THEN checked ELSE DictV(allowlist)

\* longest value of a flag-list variable
MaxFlagListLen == 5

FlagListAlphabet == {"a", "b", "-", ","}

F_ba == <<"b", "a">>

S_on == <<"o", "n">>
S_off == <<"o", "f", "f">>

\* a kebab-case name: lower-case words joined by single hyphens
IsKebabName(t) ==
    /\ Len(t) >= 1
    /\ t[1] \in Lower
    /\ t[Len(t)] # "-"
    /\ \A i \in 1..Len(t) : t[i] \in Lower \cup DigitChars \cup {"-"}
    /\ \A i \in 1..(Len(t) - 1) : ~(t[i] = "-" /\ t[i + 1] = "-")

\* values of DBT_ENABLE_FLAGS: every short string whose items are empty,
\* kebab-case names or start with a character no name starts with (the
\* items snake_case is modelled for), and upper-case ones
EnableValues ==
    {NoneV}
    \cup {StrV(x) : x \in {y \in SeqsUpTo(MaxFlagListLen, FlagListAlphabet) :
                              \A t \in SplitComma(y) :
                                  t = <<>> \/ IsKebabName(t) \/ t[1] \notin Lower}}
    \cup {StrV(<<"A", "B">>), StrV(<<"a", "b", ",", "B", "A">>)}

\* sections of the file: no two options with the same snake_case name
SectionValues ==
    {NoneV}
    \cup {DictV(d) : d \in UNION {[fs -> {StrV(S_on), StrV(S_off), StrV(<<"x">>)}] :
                                    fs \in SUBSET {F_ab, F_a_dash_b, F_zz}}}

\* documents of the defaults provider
DocValues ==
    {[tag |-> "missing"], NoneV}
    \cup {DictV([f \in fs |-> TRUE]) : fs \in SUBSET {F_ab, F_a_b, F_zz}}

AllowlistSchemas ==
    [global_flags : SUBSET {F_ab, F_ba, F_a_b}, verb_flags : {{F_ab}}]

\* one provider with the source of its allowlist, and the schema documents
StartAL ==
    /\ call_op = "ready"
    /\ \E sch \in AllowlistSchemas :
          call_args \in
              {[provider |-> "environment", scope |-> sc, enable |-> e, disable |-> d,
                section |-> NoneV, doc |-> NoneV,
                global_flags |-> sch.global_flags, verb_flags |-> sch.verb_flags] :
                    sc \in {ScopeGlobal, ScopeVerb(V_run)}, e \in EnableValues,
                    d \in {NoneV, StrV(F_ab)}}
              \cup
              {[provider |-> "file", scope |-> sc, enable |-> NoneV, disable |-> NoneV,
                section |-> sec, doc |-> NoneV,
                global_flags |-> sch.global_flags, verb_flags |-> sch.verb_flags] :
                    sc \in {ScopeGlobal, ScopeVerb(V_run)}, sec \in SectionValues}
              \cup
              {[provider |-> "defaults", scope |-> ScopeGlobal, enable |-> NoneV,
                disable |-> NoneV, section |-> NoneV, doc |-> doc,
                global_flags |-> sch.global_flags, verb_flags |-> sch.verb_flags] :
                    doc \in DocValues}
    /\ call_result = NoneV

\* EnvironmentConfigProvider().get_flag_allowlist(verb)
EnvGetFlagAllowlistCall ==
    /\ call_op = "ready"
    /\ call_args.provider = "environment"
    /\ call_op' = "env_get_flag_allowlist"
    /\ call_result' = EnvGetFlagAllowlist(call_args.scope, call_args.enable,
                                          call_args.disable, call_args.global_flags,
                                          call_args.verb_flags)
    /\ UNCHANGED <<call_args, varsIn, varsCI, varsLA, varsPR, varsGC, varsLate>>

\* FileConfigProvider().get_flag_allowlist(verb)
FileGetFlagAllowlistCall ==
    /\ call_op = "ready"
    /\ call_args.provider = "file"
    /\ call_op' = "file_get_flag_allowlist"
    /\ call_result' = FileGetFlagAllowlist(call_args.scope, call_args.section,
                                           call_args.global_flags,
                                           call_args.verb_flags)
    /\ UNCHANGED <<call_args, varsIn, varsCI, varsLA, varsPR, varsGC, varsLate>>

\* DefaultsConfigProvider().get_flag_allowlist(None)
DefaultsGetFlagAllowlistCall ==
    /\ call_op = "ready"
    /\ call_args.provider = "defaults"
    /\ call_op' = "defaults_get_flag_allowlist"
    /\ call_result' = DefaultsGetFlagAllowlist(call_args.scope, {}, call_args.doc)
    /\ UNCHANGED <<call_args, varsIn, varsCI, varsLA, varsPR, varsGC, varsLate>>

-----------------------------------------------------------------------------
\* get_projects_root_dir of the file and environment providers

\* FileConfigProvider.get_projects_root_dir (file.py:365-394): option is
\* None when there is no parsed file or it has no [dbt].projects_root_dir
FileGetProjectsRootDir(option, fs) ==
    IF option.tag = "none" THEN NoneV
    ELSE IF fs[option.s] = "missing"
    THEN RaiseV("FileNotFoundError", "FileConfigProvider: [dbt].projects_root_dir")
    ELSE IF fs[option.s] # "dir"
    THEN RaiseV("NotADirectoryError", "FileConfigProvider: [dbt].projects_root_dir")
    ELSE PathV(option.s)

PathNames == {"/a", "/b"}
PathSettings == {NoneV} \cup {StrV(p) : p \in PathNames}

StartPR ==
    /\ pr_environ \in PathSettings
    /\ pr_option \in PathSettings
    /\ pr_fs \in [PathNames -> {"missing", "file", "dir"}]
    /\ pr_provider = "none"
    /\ pr_result = NoneV

IdlePR ==
    /\ pr_environ = NoneV
    /\ pr_option = NoneV
    /\ pr_fs = [p \in PathNames |-> "missing"]
    /\ pr_provider = "idle"
    /\ pr_result = NoneV

EnvProjectsRootDir ==
    /\ pr_provider = "none"
    /\ pr_provider' = "environment"
    /\ pr_result' = EnvGetProjectsRootDir(pr_environ)
    /\ UNCHANGED <<pr_environ, pr_option, pr_fs, varsIn, varsCI, varsLA, varsNew, varsLate>>

FileProjectsRootDir ==
    /\ pr_provider = "none"
    /\ pr_provider' = "file"
    /\ pr_result' = FileGetProjectsRootDir(pr_option, pr_fs)
    /\ UNCHANGED <<pr_environ, pr_option, pr_fs, varsIn, varsCI, varsLA, varsNew, varsLate>>

-----------------------------------------------------------------------------
\* FileConfigProvider as an object (app/dbt/config/providers/file.py)

LowerLetters == <<"a", "b", "c", "d", "e", "f", "g", "h", "i", "j", "k", "l", "m",
                  "n", "o", "p", "q", "r", "s", "t", "u", "v", "w", "x", "y", "z">>
UpperLetters == <<"A", "B", "C", "D", "E", "F", "G", "H", "I", "J", "K", "L", "M",
                  "N", "O", "P", "Q", "R", "S", "T", "U", "V", "W", "X", "Y", "Z">>

\* str.upper()
StrUpper(s) ==
    [i \in 1..Len(s) |->
        IF \E j \in 1..26 : LowerLetters[j] = s[i]
        THEN UpperLetters[CHOOSE j \in 1..26 : LowerLetters[j] = s[i]]
        ELSE s[i]]

\* str.startswith(prefix)
StartsWith(s, prefix) ==
    Len(s) >= Len(prefix) /\ SubSeq(s, 1, Len(prefix)) = prefix

\* the name of a section: "dbt" itself, f"dbt.{kind}" for the global scope
\* and f"dbt.{verb}.{kind}" for a verb; verbs hold no dot, so two scopes
\* never give the same name
SectionName(scope, kind) == [scope |-> scope, kind |-> kind]
DbtSection == SectionName([tag |-> "global"], "dbt")

\* configparser's [DEFAULT] section: sections() and has_section leave it
\* out, and its options show in every section that does not set them
DefaultSection == SectionName([tag |-> "global"], "DEFAULT")
ConfigDefaults(config) ==
    IF DefaultSection \in DOMAIN config.d THEN config.d[DefaultSection] ELSE EmptyDict

\* paths and values of DBT_CONFIG_FILE
P_a == <<"/", "a">>
P_b == <<"/", "b">>
ConfigPaths == {P_a, P_b}

\* _read_config_file (file.py:83-116).  A file is what configparser makes of
\* it: "malformed" when content comes before any section header, else its
\* sections, [DEFAULT] apart.  (The path tested is the stripped value, the
\* path read the unstripped one: the values of the model have no padding
\* around a path.)
ReadConfigFile(env_value, fs) ==
    IF env_value.tag = "none" \/ StrStrip(env_value.s) = <<>>
    THEN NoneV
    ELSE LET path == StrStrip(env_value.s)
         IN  IF fs[path].kind = "missing"
             THEN RaiseV("FileNotFoundError", "FileConfigProvider: DBT_CONFIG_FILE")
             ELSE IF fs[path].kind = "dir"
             THEN RaiseV("IsADirectoryError", "FileConfigProvider: DBT_CONFIG_FILE")
             ELSE IF fs[path].doc.tag = "malformed"
             THEN RaiseV("MissingSectionHeaderError", "FileConfigProvider: DBT_CONFIG_FILE")
             ELSE IF DOMAIN fs[path].doc.d \ {DefaultSection} = {}
             THEN RaiseV("ParsingError", "FileConfigProvider: file is empty")
             ELSE [tag |-> "parsed", path |-> StrV(path), config |-> fs[path].doc]

\* FileConfigProvider.__init__ (file.py:118-120)
FileInit(env_value, fs) ==
    LET config_info == ReadConfigFile(env_value, fs)
    IN  IF config_info.tag = "raise" THEN config_info
        ELSE IF config_info.tag = "none"
        THEN [tag |-> "file_provider", path |-> NoneV, config |-> NoneV]
        ELSE [tag |-> "file_provider", path |-> config_info.path,
              config |-> config_info.config]

\* _read_ini_section (file.py:493-497): a copy of the section's options,
\* those it takes from [DEFAULT] included
ReadIniSection(config, name) ==
    IF config.tag = "none" \/ name \notin DOMAIN config.d \ {DefaultSection}
    THEN NoneV
    ELSE DictV(DictMerge(ConfigDefaults(config), config.d[name]))

\* self.config.has_option("dbt", option); the [DEFAULT] sections of the
\* model set none of the options the provider reads from [dbt]
HasOption(config, option) ==
    /\ DbtSection \in DOMAIN config.d
    /\ option \in DOMAIN config.d[DbtSection]

\* the value _get_verbs_from_option and get_projects_root_dir work on: None
\* when there is no parsed file or no such option (file.py:379, 462-466)
DbtOption(config, option) ==
    IF config.tag = "none" THEN NoneV
    ELSE IF ~HasOption(config, option) THEN NoneV
    ELSE config.d[DbtSection][option]

\* the [dbt] option behind each verb-list method (file.py:136, 241, 304,
\* 361-363, 436)
FileVerbListOption(method) ==
    CASE method = "get_allowed_verbs" -> "allowed_verbs"
      [] method = "get_flag_allowlist_apply_global" -> "apply_global_allowlist"
      [] method = "get_env_variables_apply_global" -> "apply_global_env_vars"
      [] method = "get_flag_internal_values_apply_global" ->
            "apply_global_internal_flag_values"
      [] method = "get_variables_apply_global" -> "apply_global_vars"

UpperAlnum == {UpperLetters[j] : j \in 1..26} \cup DigitChars

\* is_env_var (file.py:180-181), on an upper-cased key:
\* re.match(r"^DBT_([A-Z0-9]+_+)+([A-Z0-9]+)$", key), that is DBT_ and then
\* two or more words joined by runs of underscores
FileIsEnvVar(key) ==
    /\ StartsWith(key, <<"D", "B", "T", "_">>)
    /\ LET rest == SubSeq(key, 5, Len(key))
       IN  /\ Len(rest) >= 3
           /\ \A i \in 1..Len(rest) : rest[i] \in UpperAlnum \cup {"_"}
           /\ rest[1] # "_"
           /\ rest[Len(rest)] # "_"
           /\ \E i \in 1..Len(rest) : rest[i] = "_"

\* is_secret_var, is_custom_env_var, is_base_var (file.py:183-190)
FileIsSecretVar(key) ==
    StartsWith(key, <<"D", "B", "T", "_", "E", "N", "V", "_",
                      "S", "E", "C", "R", "E", "T", "_">>)
FileIsCustomEnvVar(key) ==
    StartsWith(key, <<"D", "B", "T", "_", "E", "N", "V", "_",
                      "C", "U", "S", "T", "O", "M", "_", "E", "N", "V", "_">>)
FileIsBaseVar(key) ==
    FileIsEnvVar(key) /\ ~FileIsSecretVar(key) /\ ~FileIsCustomEnvVar(key)

\* rename (file.py:192-195)
FileRename(key) ==
    IF FileIsBaseVar(key) /\ StartsWith(key, <<"D", "B", "T", "_", "E", "N", "V", "_">>)
    THEN <<"D", "B", "T", "_">> \o SubSeq(key, 9, Len(key))
    ELSE key

\* FileConfigProvider.get_env_variables (file.py:165-224).  The options of
\* a section reach the loop in file order; the sections of the model have
\* no two options that end under the same key, so the order does not show.
FileGetEnvVariables(config, scope) ==
    IF config.tag = "none" THEN NoneV
    ELSE LET toggle == IF HasOption(config, "rename_env")
                       THEN BoolParserParse(DbtOption(config, "rename_env"), FALSE)
                       ELSE BoolV(FALSE)
         IN  IF toggle.tag = "raise"
             THEN RaiseV("ValueError", "FileConfigProvider: [dbt].rename_env")
             ELSE LET options == ReadIniSection(config, SectionName(scope, "env_vars"))
                  IN  IF options.tag = "none" \/ DOMAIN options.d = {} THEN NoneV
                      ELSE LET errors == {StrUpper(k) : k \in {x \in DOMAIN options.d :
                                                           ~FileIsEnvVar(StrUpper(x))}}
                               kept == {k \in DOMAIN options.d : FileIsEnvVar(StrUpper(k))}
                               NewKey(k) == IF toggle.b THEN FileRename(StrUpper(k))
                                            ELSE StrUpper(k)
                               env_vars ==
                                   [n \in {NewKey(k) : k \in kept} |->
                                       options.d[CHOOSE k \in kept : NewKey(k) = n]]
                           IN  IF errors # {}
                               THEN GroupV("FileConfigProvider: env_vars", errors)
                               ELSE IF DOMAIN env_vars = {} THEN NoneV
                               ELSE DictV(env_vars)

\* the dict comprehension {snake_case(key): value for key, value in section}
SnakeCaseKeys(d) ==
    [n \in {SnakeCase(k) : k \in DOMAIN d} |->
        d[CHOOSE k \in DOMAIN d : SnakeCase(k) = n]]

\* FileConfigProvider.get_flag_internal_values (file.py:324-342)
FileGetFlagInternalValues(scope, section, global_flags, verb_flags) ==
    IF section.tag = "none" \/ DOMAIN section.d = {} THEN NoneV
    ELSE LET flags == SnakeCaseKeys(section.d)
             checked == ValidateFlagAvailability(scope, DOMAIN flags,
                                                 global_flags, verb_flags)
         IN  IF checked.tag = "raise" THEN checked ELSE DictV(flags)

\* FileConfigProvider.get_variables (file.py:414-419)
FileGetVariables(section) ==
    IF section.tag = "none" \/ DOMAIN section.d = {} THEN NoneV
    ELSE DictV(SnakeCaseKeys(section.d))

\* the file system as get_projects_root_dir sees it
PathKinds(fs) == [p \in DOMAIN fs |-> fs[p].kind]

\* the query methods, over the parsed file they read (None: no file); q is
\* the method with its scope or available_verbs argument
FileQueryOn(config, q, fs, global_flags, verb_flags) ==
    CASE q.method \in VerbListMethods ->
            GetVerbsFromOption(DbtOption(config, FileVerbListOption(q.method)),
                               q.available_verbs)
      [] q.method = "get_flag_allowlist" ->
            FileGetFlagAllowlist(
                q.scope, ReadIniSection(config, SectionName(q.scope, "flags.allowlist")),
                global_flags, verb_flags)
      [] q.method = "get_flag_internal_values" ->
            FileGetFlagInternalValues(
                q.scope, ReadIniSection(config, SectionName(q.scope, "flags.values")),
                global_flags, verb_flags)
      [] q.method = "get_env_variables" -> FileGetEnvVariables(config, q.scope)
      [] q.method = "get_variables" ->
            FileGetVariables(ReadIniSection(config, SectionName(q.scope, "vars")))
      [] q.method = "get_projects_root_dir" ->
            FileGetProjectsRootDir(DbtOption(config, "projects_root_dir"),
                                   PathKinds(fs))

\* a provider whose methods parse the file named by DBT_CONFIG_FILE again
FileQueryRereading(self, q, fs, global_flags, verb_flags) ==
    LET again == ReadConfigFile(fp_environ, fs)
    IN  IF again.tag = "raise" THEN again
        ELSE FileQueryOn(IF again.tag = "none" THEN NoneV ELSE again.config,
                         q, fs, global_flags, verb_flags)

\* a method called on the provider: every method reads self.config
\* (file.py:165, 379, 462, 495)
FileQuery(self, q, fs, global_flags, verb_flags) ==
    FileQueryOn(self.config, q, fs, global_flags, verb_flags)

\* ---- sources of the file provider

E_dbt_env_x == <<"d", "b", "t", "_", "e", "n", "v", "_", "x">>
E_dbt_env_secret_x ==
    <<"d", "b", "t", "_", "e", "n", "v", "_", "s", "e", "c", "r", "e", "t", "_", "x">>

\* two configuration files that differ in every section they share
DocA ==
    DictV(DbtSection :> [allowed_verbs |-> StrV(V_ls),
                         apply_global_vars |-> StrV(<<"*">>),
                         rename_env |-> StrV(S_on),
                         projects_root_dir |-> StrV(P_b)]
          @@ SectionName(ScopeGlobal, "env_vars") :> (E_dbt_env_x :> StrV(<<"1">>))
          @@ SectionName(ScopeVerb(V_run), "env_vars") :>
                (E_dbt_env_x :> StrV(<<"2">>) @@ E_dbt_env_secret_x :> StrV(<<"3">>))
          @@ SectionName(ScopeGlobal, "flags.allowlist") :> (F_ab :> StrV(S_on))
          @@ SectionName(ScopeGlobal, "flags.values") :> (F_ab :> StrV(<<"4">>))
          @@ SectionName(ScopeGlobal, "vars") :> (F_ab :> StrV(<<"1">>))
          @@ SectionName(ScopeVerb(V_run), "vars") :> (F_a_dash_b :> StrV(<<"2">>)))

DocB ==
    DictV(DbtSection :> [allowed_verbs |-> StrV(V_run),
                         apply_global_vars |-> StrV(V_ls)]
          @@ SectionName(ScopeGlobal, "env_vars") :> (E_dbt_env_x :> StrV(<<"9">>))
          @@ SectionName(ScopeGlobal, "flags.allowlist") :> (F_ab :> StrV(S_off))
          @@ SectionName(ScopeGlobal, "flags.values") :> (F_a_b :> StrV(<<"x">>))
          @@ SectionName(ScopeGlobal, "vars") :> (F_ab :> StrV(<<"2">>)))

\* what a path may hold: nothing, a directory, or a file that is empty,
\* malformed or one of the two documents
FileEntries ==
    {[kind |-> "missing"], [kind |-> "dir"]}
    \cup {[kind |-> "file", doc |-> d] :
            d \in {DictV(EmptyDict), [tag |-> "malformed"], DocA, DocB}}

ConfigFileSettings ==
    {NoneV, StrV(<<>>), StrV(<<" ">>)} \cup {StrV(p) : p \in ConfigPaths}

\* the schema documents next to the provider
FileGlobalFlags == {F_ab, F_a_b}
FileVerbFlags == {F_ab}

FileMethods == VerbListMethods \cup ScopedMethods \cup {"get_projects_root_dir"}

FileQueries ==
    [method : FileMethods, scope : {ScopeGlobal, ScopeVerb(V_run)},
     available_verbs : {{V_run, V_ls}}]

StartFP ==
    /\ fp_environ \in ConfigFileSettings
    /\ fp_fs \in [ConfigPaths -> FileEntries]
    /\ fp_self = [tag |-> "unbuilt"]
    /\ fp_built = NoneV
    /\ fp_query = NoneV
    /\ fp_result = NoneV

\* no file provider
IdleFP ==
    /\ fp_environ = NoneV
    /\ fp_fs = [p \in ConfigPaths |-> [kind |-> "missing"]]
    /\ fp_self = [tag |-> "idle"]
    /\ fp_built = NoneV
    /\ fp_query = NoneV
    /\ fp_result = NoneV

\* FileConfigProvider(): __init__ assigns self.path and self.config, or the
\* exception of _read_config_file leaves no object
FileConstruct ==
    /\ fp_self.tag = "unbuilt"
    /\ fp_self' = FileInit(fp_environ, fp_fs)
    /\ fp_built' = [environ |-> fp_environ,
                    entry |-> IF fp_environ.tag = "str" /\ StrStrip(fp_environ.s) # <<>>
                              THEN fp_fs[StrStrip(fp_environ.s)]
                              ELSE NoneV,
                    self |-> fp_self']
    /\ UNCHANGED <<fp_environ, fp_fs, fp_query, fp_result,
                   varsIn, varsCI, varsLA, varsPR, varsNew, varsCC>>

\* one query method called on the constructed provider; no method assigns
\* an attribute of self, and _read_ini_section hands out a copy
FileQueryCall ==
    /\ fp_self.tag = "file_provider"
    /\ \E q \in FileQueries :
          /\ fp_query' = q
          /\ fp_result' = FileQuery(fp_self, q, fp_fs, FileGlobalFlags, FileVerbFlags)
    /\ UNCHANGED <<fp_environ, fp_fs, fp_self, fp_built,
                   varsIn, varsCI, varsLA, varsPR, varsNew, varsCC>>

\* after construction, the file at a path is rewritten, replaced or deleted
ChangeConfigFile ==
    /\ fp_self.tag = "file_provider"
    /\ \E p \in ConfigPaths, e \in FileEntries :
          /\ e # fp_fs[p]
          /\ fp_fs' = [fp_fs EXCEPT ![p] = e]
    /\ UNCHANGED <<fp_environ, fp_self, fp_built, fp_query, fp_result,
                   varsIn, varsCI, varsLA, varsPR, varsNew, varsCC>>

\* after construction, DBT_CONFIG_FILE is set to another value or unset
ChangeConfigFileVariable ==
    /\ fp_self.tag = "file_provider"
    /\ \E v \in ConfigFileSettings :
          /\ v # fp_environ
          /\ fp_environ' = v
    /\ UNCHANGED <<fp_fs, fp_self, fp_built, fp_query, fp_result,
                   varsIn, varsCI, varsLA, varsPR, varsNew, varsCC>>

-----------------------------------------------------------------------------
\* The scoped queries of EnvironmentConfigProvider over os.environ
\* (app/dbt/config/providers/environment.py).  os.environ is the sequence
\* of its (name, value) items, in iteration order, no name twice.

\* os.getenv(name)
GetEnvItem(items, name) ==
    IF \E i \in 1..Len(items) : items[i].name = name
    THEN StrV(items[CHOOSE i \in 1..Len(items) : items[i].name = name].value)
    ELSE NoneV

\* str.replace(old, new): every occurrence, from the left, without overlap
RECURSIVE StrReplace(_, _, _)
StrReplace(s, old, new) ==
    IF old = <<>> \/ Len(s) < Len(old) THEN s
    ELSE IF StartsWith(s, old)
    THEN new \o StrReplace(SubSeq(s, Len(old) + 1, Len(s)), old, new)
    ELSE <<Head(s)>> \o StrReplace(Tail(s), old, new)

K_DBT == <<"D", "B", "T", "_">>
K_ENV == <<"E", "N", "V", "_">>
K_VAR == <<"V", "A", "R", "_">>
K_FLAG == <<"F", "L", "A", "G", "_">>
K_SECRET == <<"S", "E", "C", "R", "E", "T">>
K_CUSTOM_ENV == <<"C", "U", "S", "T", "O", "M", "_", "E", "N", "V">>
K_RENAME_ENV == <<"D", "B", "T", "_", "R", "E", "N", "A", "M", "E", "_", "E", "N", "V">>

\* verb_str (environment.py:60, 288)
VerbStr(scope) == IF scope.tag = "global" THEN <<>> ELSE StrUpper(scope.v) \o <<"_">>

\* is_env_var, is_secret_var, is_custom_env_var, is_base_var
\* (environment.py:62-72)
EnvIsEnvVar(key, scope) == StartsWith(key, K_DBT \o VerbStr(scope) \o K_ENV)
EnvIsSecretVar(key, scope) ==
    StartsWith(key, K_DBT \o VerbStr(scope) \o K_ENV \o K_SECRET)
EnvIsCustomEnvVar(key, scope) ==
    StartsWith(key, K_DBT \o VerbStr(scope) \o K_ENV \o K_CUSTOM_ENV)
EnvIsBaseVar(key, scope) ==
    EnvIsEnvVar(key, scope) /\ ~EnvIsSecretVar(key, scope) /\ ~EnvIsCustomEnvVar(key, scope)

\* rename (environment.py:74-79), the toggle being parsed already
EnvRename(key, scope, toggle) ==
    IF toggle /\ EnvIsBaseVar(key, scope)
    THEN StrReplace(key, K_DBT \o VerbStr(scope) \o K_ENV, K_DBT)
    ELSE StrReplace(key, VerbStr(scope), <<>>)

\* the largest index of a set of indices
LastIndex(S) == CHOOSE x \in S : \A y \in S : y <= x

\* EnvironmentConfigProvider.get_env_variables (environment.py:60-92).
\* rename parses DBT_RENAME_ENV each time it is called, so a value that is
\* not a boolean raises once a variable of the scope exists.  The three
\* comprehensions keep the last item of each new key, and the merge of
\* line 90 lets secret override base and custom override both.
EnvGetEnvVariables(items, scope) ==
    LET parsed == BoolParserParse(GetEnvItem(items, K_RENAME_ENV), FALSE)
        matching == {i \in 1..Len(items) :
                        \/ EnvIsBaseVar(items[i].name, scope)
                        \/ EnvIsSecretVar(items[i].name, scope)
                        \/ EnvIsCustomEnvVar(items[i].name, scope)}
        Rank(i) == IF EnvIsCustomEnvVar(items[i].name, scope) THEN 3
                   ELSE IF EnvIsSecretVar(items[i].name, scope) THEN 2
                   ELSE 1
        NewKey(i) == EnvRename(items[i].name, scope, parsed.b)
        Winner(n) ==
            LET same == {i \in matching : NewKey(i) = n}
                top == LastIndex({Rank(i) : i \in same})
            IN  LastIndex({i \in same : Rank(i) = top})
    IN  IF matching = {} THEN NoneV
        ELSE IF parsed.tag = "raise" THEN parsed
        ELSE DictV([n \in {NewKey(i) : i \in matching} |-> items[Winner(n)].value])

\* EnvironmentConfigProvider.get_variables (environment.py:288-295)
EnvGetVariables(items, scope) ==
    LET prefix == K_DBT \o VerbStr(scope) \o K_VAR
        matching == {i \in 1..Len(items) : StartsWith(items[i].name, prefix)}
        NewKey(i) == StrLower(SubSeq(items[i].name, Len(prefix) + 1, Len(items[i].name)))
    IN  IF matching = {} THEN NoneV
        ELSE DictV([n \in {NewKey(i) : i \in matching} |->
                       items[LastIndex({i \in matching : NewKey(i) = n})].value])

\* EnvironmentConfigProvider.get_flag_internal_values (environment.py:217-241)
EnvGetFlagInternalValues(items, scope, global_flags, verb_flags) ==
    LET var_prefix == K_DBT \o VerbStr(scope) \o K_FLAG
        matching == {i \in 1..Len(items) : StartsWith(items[i].name, var_prefix)}
        NewKey(i) == StrLower(SubSeq(items[i].name, Len(var_prefix) + 1,
                                     Len(items[i].name)))
        flags == [n \in {NewKey(i) : i \in matching} |->
                     items[LastIndex({i \in matching : NewKey(i) = n})].value]
    IN  IF matching = {} THEN NoneV
        ELSE LET checked == ValidateFlagAvailability(scope, DOMAIN flags,
                                                     global_flags, verb_flags)
             IN  IF checked.tag = "raise" THEN checked ELSE DictV(flags)

\* the two variables get_flag_allowlist reads for a scope
\* (environment.py:164-169)
FlagsVariable(scope, which) ==
    K_DBT \o VerbStr(scope) \o which \o <<"_", "F", "L", "A", "G", "S">>

K_ENABLE == <<"E", "N", "A", "B", "L", "E">>
K_DISABLE == <<"D", "I", "S", "A", "B", "L", "E">>

\* one scoped method of the environment provider
EnvScopedQuery(items, method, scope, global_flags, verb_flags) ==
    CASE method = "get_env_variables" -> EnvGetEnvVariables(items, scope)
      [] method = "get_variables" -> EnvGetVariables(items, scope)
      [] method = "get_flag_internal_values" ->
            EnvGetFlagInternalValues(items, scope, global_flags, verb_flags)
      [] method = "get_flag_allowlist" ->
            EnvGetFlagAllowlist(scope,
                                GetEnvItem(items, FlagsVariable(scope, K_ENABLE)),
                                GetEnvItem(items, FlagsVariable(scope, K_DISABLE)),
                                global_flags, verb_flags)

\* ---- get_env_variables of the environment and the file provider

\* most variables (or options) of the scope in one source
MaxEnvVars == 2

\* what follows DBT_{VERB_}ENV_ in a name
R_X == <<"X">>
R_RUN_X == <<"R", "U", "N", "_", "X">>
R_SECRET_X == <<"S", "E", "C", "R", "E", "T", "_", "X">>
R_SECRETS == <<"S", "E", "C", "R", "E", "T", "S">>
R_CUSTOM_ENV_X == <<"C", "U", "S", "T", "O", "M", "_", "E", "N", "V", "_", "X">>
R_DBT_ENV_X == <<"D", "B", "T", "_", "E", "N", "V", "_", "X">>
R_ENV_SECRET_X == <<"E", "N", "V", "_", "S", "E", "C", "R", "E", "T", "_", "X">>

RestPool == {R_X, R_RUN_X, R_SECRET_X, R_SECRETS, R_CUSTOM_ENV_X, R_DBT_ENV_X,
             R_ENV_SECRET_X}

\* sequences without repetition
DistinctSeqs(n, S) ==
    {q \in SeqsUpTo(n, S) : \A i, j \in 1..Len(q) : i # j => q[i] # q[j]}

ToggleValues == {NoneV, StrV(S_on), StrV(S_off), StrV(<<"x">>)}

\* os.environ with one DBT_{VERB_}ENV_{REST} variable per rest, the i-th
\* holding the digit i, and DBT_RENAME_ENV when the toggle is set
EnvItemsOf(scope, rests, toggle) ==
    [i \in 1..Len(rests) |->
        [name |-> K_DBT \o VerbStr(scope) \o K_ENV \o rests[i],
         value |-> <<Digits[i + 1]>>]]
    \o (IF toggle.tag = "none" THEN <<>>
        ELSE <<[name |-> K_RENAME_ENV, value |-> toggle.s]>>)

\* the parsed file with one dbt_env_{rest} option per rest in the section of
\* the scope, and [dbt].rename_env when the toggle is set; configparser
\* stores option names in lower case
FileConfigOf(scope, rests, toggle) ==
    DictV(DbtSection :> (IF toggle.tag = "none"
                         THEN [allowed_verbs |-> StrV(V_run)]
                         ELSE [allowed_verbs |-> StrV(V_run), rename_env |-> toggle])
          @@ SectionName(scope, "env_vars") :>
                [k \in {StrLower(K_DBT \o K_ENV \o rests[i]) : i \in 1..Len(rests)} |->
                    StrV(<<Digits[1 + CHOOSE i \in 1..Len(rests) :
                                      StrLower(K_DBT \o K_ENV \o rests[i]) = k]>>)])

StartEV ==
    /\ call_op = "ready"
    /\ call_args \in
          {a \in [provider : {"environment", "file"},
                  scope : {ScopeGlobal, ScopeVerb(V_run)},
                  toggle : ToggleValues,
                  rests : DistinctSeqs(MaxEnvVars, RestPool)] :
              \* sections of a file: no two options end under the same key
              a.provider = "file" =>
                  \A i, j \in 1..Len(a.rests) :
                      i # j => FileRename(K_DBT \o K_ENV \o a.rests[i])
                               # FileRename(K_DBT \o K_ENV \o a.rests[j])}
    /\ call_result = NoneV

\* EnvironmentConfigProvider().get_env_variables(verb)
EnvGetEnvVariablesCall ==
    /\ call_op = "ready"
    /\ call_args.provider = "environment"
    /\ call_op' = "env_get_env_variables"
    /\ call_result' = EnvGetEnvVariables(
                          EnvItemsOf(call_args.scope, call_args.rests, call_args.toggle),
                          call_args.scope)
    /\ UNCHANGED <<call_args, varsIn, varsCI, varsLA, varsPR, varsGC, varsLate>>

\* FileConfigProvider().get_env_variables(verb)
FileGetEnvVariablesCall ==
    /\ call_op = "ready"
    /\ call_args.provider = "file"
    /\ call_op' = "file_get_env_variables"
    /\ call_result' = FileGetEnvVariables(
                          FileConfigOf(call_args.scope, call_args.rests, call_args.toggle),
                          call_args.scope)
    /\ UNCHANGED <<call_args, varsIn, varsCI, varsLA, varsPR, varsGC, varsLate>>

\* ---- the scoped methods over a source that configures several scopes

ScopeOrder == <<ScopeGlobal, ScopeVerb(V_run), ScopeVerb(V_ls)>>
QueryScopes == {ScopeOrder[i] : i \in 1..Len(ScopeOrder)}

\* the value an entry has in the section or under the prefix of a scope
ScopeDigit(scope) ==
    IF scope.tag = "global" THEN <<"1">>
    ELSE IF scope.v = V_run THEN <<"2">> ELSE <<"3">>

\* os.environ with the entry of the method's kind, of the same name, under
\* the prefix of every configured scope
EnvSourceOf(method, configured) ==
    LET scopes == SelectSeq(ScopeOrder, LAMBDA sc : sc \in configured)
        Item(sc) ==
            CASE method = "get_env_variables" ->
                    [name |-> K_DBT \o VerbStr(sc) \o K_ENV \o <<"X">>,
                     value |-> ScopeDigit(sc)]
              [] method = "get_variables" ->
                    [name |-> K_DBT \o VerbStr(sc) \o K_VAR \o <<"X">>,
                     value |-> ScopeDigit(sc)]
              [] method = "get_flag_internal_values" ->
                    [name |-> K_DBT \o VerbStr(sc) \o K_FLAG \o <<"A", "B">>,
                     value |-> ScopeDigit(sc)]
              [] method = "get_flag_allowlist" ->
                    [name |-> FlagsVariable(sc, IF sc = ScopeVerb(V_run)
                                                THEN K_DISABLE ELSE K_ENABLE),
                     value |-> F_ab]
    IN  [i \in 1..Len(scopes) |-> Item(scopes[i])]

\* the section kind each scoped method of the file provider reads
\* (file.py:197, 261, 324, 414)
SectionKind(method) ==
    CASE method = "get_env_variables" -> "env_vars"
      [] method = "get_variables" -> "vars"
      [] method = "get_flag_internal_values" -> "flags.values"
      [] method = "get_flag_allowlist" -> "flags.allowlist"

\* a configuration file with the entry of the method's kind, of the same
\* name, in the section of every configured scope, and with or without a
\* [DEFAULT] section that sets one more option
FileSourceOf(method, configured, defaults) ==
    LET option == IF method = "get_env_variables" THEN E_dbt_env_x ELSE F_ab
        other == IF method = "get_env_variables" THEN E_dbt_env_secret_x ELSE F_a_b
        Value(sc) == IF method = "get_flag_allowlist"
                     THEN StrV(IF sc = ScopeVerb(V_run) THEN S_off ELSE S_on)
                     ELSE StrV(ScopeDigit(sc))
        names == {DbtSection}
                 \cup {SectionName(sc, SectionKind(method)) : sc \in configured}
                 \cup (IF defaults THEN {DefaultSection} ELSE {})
    IN  DictV([n \in names |->
                  IF n = DbtSection THEN [allowed_verbs |-> StrV(V_run)]
                  ELSE IF n = DefaultSection
                  THEN other :> (IF method = "get_flag_allowlist"
                                 THEN StrV(S_off) ELSE StrV(<<"0">>))
                  ELSE option :> Value(n.scope)])

\* one scoped method of one provider, over the source that configures the
\* scopes given
ScopedQueryOn(a, configured, defaults) ==
    IF a.provider = "environment"
    THEN EnvScopedQuery(EnvSourceOf(a.method, configured), a.method, a.scope,
                        FileGlobalFlags, FileVerbFlags)
    ELSE FileQueryOn(FileSourceOf(a.method, configured, defaults),
                     [method |-> a.method, scope |-> a.scope],
                     EmptyDict, FileGlobalFlags, FileVerbFlags)

StartSQ ==
    /\ call_op = "ready"
    /\ call_args \in
          {a \in [provider : {"environment", "file"}, method : ScopedMethods,
                  scope : QueryScopes, configured : SUBSET QueryScopes,
                  defaults : BOOLEAN] :
              a.defaults => a.provider = "file"}
    /\ call_result = NoneV

\* EnvironmentConfigProvider().{method}(verb)
EnvScopedQueryCall ==
    /\ call_op = "ready"
    /\ call_args.provider = "environment"
    /\ call_op' = "env_scoped_query"
    /\ call_result' = ScopedQueryOn(call_args, call_args.configured, call_args.defaults)
    /\ UNCHANGED <<call_args, varsIn, varsCI, varsLA, varsPR, varsGC, varsLate>>

\* FileConfigProvider().{method}(verb)
FileScopedQueryCall ==
    /\ call_op = "ready"
    /\ call_args.provider = "file"
    /\ call_op' = "file_scoped_query"
    /\ call_result' = ScopedQueryOn(call_args, call_args.configured, call_args.defaults)
    /\ UNCHANGED <<call_args, varsIn, varsCI, varsLA, varsPR, varsGC, varsLate>>

-----------------------------------------------------------------------------
\* DbtConfigLoader.get_config called from several threads
\* (config/config.py:124-132).  The method takes no lock; a thread may be
\* preempted between the test of _instance and the assignment to it.

\* threads that call get_config
MaxThreads == 2
Threads == 1..MaxThreads

\* DbtConfig.create_instance() as get_config calls it, with no providers
\* argument: it ends with what get_providers() ends with (config.py:31-32)
CreateInstanceNoArgs == GetProviders

StartCC ==
    /\ cc_instance = NoneV
    /\ cc_pc = [t \in Threads |-> "call"]
    /\ cc_local = [t \in Threads |-> NoneV]
    /\ cc_returned = [t \in Threads |-> <<>>]

\* no thread, no loader
IdleCC ==
    /\ cc_instance = NoneV
    /\ cc_pc = <<>>
    /\ cc_local = <<>>
    /\ cc_returned = <<>>

\* `if cls._instance is None:` and, when it is not, `return cls._instance`
GetConfigTest(t) ==
    /\ cc_pc[t] = "call"
    /\ IF cc_instance = NoneV
       THEN /\ cc_pc' = [cc_pc EXCEPT ![t] = "resolving"]
            /\ cc_returned' = cc_returned
       ELSE /\ cc_pc' = [cc_pc EXCEPT ![t] = "done"]
            /\ cc_returned' = [cc_returned EXCEPT ![t] = Append(@, cc_instance)]
    /\ UNCHANGED <<cc_instance, cc_local,
                   varsIn, varsCI, varsLA, varsPR, varsNew, varsFP>>

\* the right-hand side `DbtConfig.create_instance()`
GetConfigResolve(t) ==
    /\ cc_pc[t] = "resolving"
    /\ cc_local' = [cc_local EXCEPT ![t] = CreateInstanceNoArgs]
    /\ cc_pc' = [cc_pc EXCEPT ![t] = "resolved"]
    /\ UNCHANGED <<cc_instance, cc_returned,
                   varsIn, varsCI, varsLA, varsPR, varsNew, varsFP>>

\* the exception of the right-hand side leaves get_config, or the value is
\* assigned to cls._instance and `return cls._instance` hands it out
GetConfigStore(t) ==
    /\ cc_pc[t] = "resolved"
    /\ IF cc_local[t].tag = "raise"
       THEN /\ cc_instance' = cc_instance
            /\ cc_returned' = [cc_returned EXCEPT ![t] = Append(@, cc_local[t])]
       ELSE /\ cc_instance' = cc_local[t]
            /\ cc_returned' = [cc_returned EXCEPT ![t] = Append(@, cc_local[t])]
    /\ cc_pc' = [cc_pc EXCEPT ![t] = "done"]
    /\ UNCHANGED <<cc_local, varsIn, varsCI, varsLA, varsPR, varsNew, varsFP>>

\* a thread whose call has ended calls get_config once more
GetConfigAgain(t) ==
    /\ cc_pc[t] = "done"
    /\ Len(cc_returned[t]) < MaxCalls
    /\ cc_pc' = [cc_pc EXCEPT ![t] = "call"]
    /\ cc_local' = [cc_local EXCEPT ![t] = NoneV]
    /\ UNCHANGED <<cc_instance, cc_returned, varsIn, varsCI, varsLA, varsPR, varsNew, varsFP>>

\* the two groups of variables above, at rest
IdleLate == IdleFP /\ IdleCC

-----------------------------------------------------------------------------
\* Specifications

\* resolution: one call of DbtConfig.create_instance
Init == StartCI /\ IdleLA /\ IdlePR /\ IdleNew /\ IdleLate
Next == CreateInstance \/ LoadStep \/ CallAgain
Spec == Init /\ [][Next]_vars

\* one call of DbtConfig._load_attribute, provider by provider
InitLA == StartLA /\ IdleCI /\ IdlePR /\ IdleNew /\ IdleLate
NextLA == LoadAttributeIter \/ LoadAttributeReturn
SpecLA == InitLA /\ [][NextLA]_vars

\* one call of get_projects_root_dir
InitPR == StartPR /\ IdleCI /\ IdleLA /\ IdleNew /\ IdleLate
NextPR == EnvProjectsRootDir \/ FileProjectsRootDir
SpecPR == InitPR /\ [][NextPR]_vars

\* DbtConfigLoader.get_config called up to MaxCalls times in one process
InitGC == StartGC /\ IdleLA /\ IdlePR /\ IdleCall /\ IdleLate
NextGC == GetConfigCall \/ CreateInstance \/ GetConfigReturn
SpecGC == InitGC /\ [][NextGC]_vars

\* one call of BoolParser.parse or of the schema's boolean coercer
InitBP == StartBP /\ IdleCI /\ IdleLA /\ IdlePR /\ IdleGC /\ IdleLate
NextBP == Parse \/ CoerceBoolean
SpecBP == InitBP /\ [][NextBP]_vars

\* one call of an operation of DbtFlagsSchema
InitFA == StartFA /\ IdleCI /\ IdleLA /\ IdlePR /\ IdleGC /\ IdleLate
NextFA == ValidateFlagAvailabilityCall \/ GetAvailableFlagsCall
SpecFA == InitFA /\ [][NextFA]_vars

\* one call of the casting and validation stage
InitCO == StartCO /\ IdleCI /\ IdleLA /\ IdlePR /\ IdleGC /\ IdleLate
NextCO == LoadInternalValuesCall \/ ValidateDirectCall
SpecCO == InitCO /\ [][NextCO]_vars

\* one call of a verb-list method of the environment or the file provider
InitVL == StartVL /\ IdleCI /\ IdleLA /\ IdlePR /\ IdleGC /\ IdleLate
NextVL == EnvVerbList \/ FileVerbList
SpecVL == InitVL /\ [][NextVL]_vars

\* one call of get_flag_allowlist of one provider
InitAL == StartAL /\ IdleCI /\ IdleLA /\ IdlePR /\ IdleGC /\ IdleLate
NextAL ==
    \/ EnvGetFlagAllowlistCall
    \/ FileGetFlagAllowlistCall
    \/ DefaultsGetFlagAllowlistCall
SpecAL == InitAL /\ [][NextAL]_vars

\* a FileConfigProvider is constructed and queried while its sources change
InitFP == StartFP /\ IdleCI /\ IdleLA /\ IdlePR /\ IdleNew /\ IdleCC
NextFP == FileConstruct \/ FileQueryCall \/ ChangeConfigFile \/ ChangeConfigFileVariable
SpecFP == InitFP /\ [][NextFP]_vars

\* get_config called by MaxThreads threads, up to MaxCalls times each
InitCC == StartCC /\ IdleCI /\ IdleLA /\ IdlePR /\ IdleNew /\ IdleFP
NextCC ==
    \E t \in Threads :
        GetConfigTest(t) \/ GetConfigResolve(t) \/ GetConfigStore(t) \/ GetConfigAgain(t)
SpecCC == InitCC /\ [][NextCC]_vars

\* one call of DbtFlagsSchema.read_schema
InitRS == StartRS /\ IdleCI /\ IdleLA /\ IdlePR /\ IdleGC /\ IdleLate
NextRS == ReadSchemaCall
SpecRS == InitRS /\ [][NextRS]_vars

\* one scoped method of the environment or the file provider
InitSQ == StartSQ /\ IdleCI /\ IdleLA /\ IdlePR /\ IdleGC /\ IdleLate
NextSQ == EnvScopedQueryCall \/ FileScopedQueryCall
SpecSQ == InitSQ /\ [][NextSQ]_vars

\* one call of get_env_variables of the environment or the file provider
InitEV == StartEV /\ IdleCI /\ IdleLA /\ IdlePR /\ IdleGC /\ IdleLate
NextEV == EnvGetEnvVariablesCall \/ FileGetEnvVariablesCall
SpecEV == InitEV /\ [][NextEV]_vars

-----------------------------------------------------------------------------
\* Properties of _load_attribute

MaxOf(S) == CHOOSE x \in S : \A y \in S : y <= x

\* the call is for a dictionary-valued attribute
IsDictCall ==
    \A i \in 1..Len(la_results) : la_results[i].tag \in {"none", "dict"}

\* the call is for a single-valued attribute (a verb set or a path)
IsSingleValuedCall ==
    /\ \A i \in 1..Len(la_results) : la_results[i].tag \in {"none", "set", "path"}
    /\ \E i \in 1..Len(la_results) : la_results[i].tag # "none"

\* providers already visited whose result was a dict
MergedSoFar == {i \in 1..(la_i - 1) : la_results[i].tag = "dict"}

\* C1: for a dictionary-valued attribute the per-provider merge never
\* raises, and at every point of the loop (and at the return) the mapping
\* built has exactly the union of the keys of the non-None results seen so
\* far, each key holding the value of the highest-index provider whose
\* result has that key; hence a None result leaves the mapping unchanged.
C1_MergeIsUnionLastWins ==
    IsDictCall =>
        /\ la_pc # "raised"
        /\ la_value.tag = "dict"
        /\ DOMAIN la_value.d = UNION {DOMAIN la_results[i].d : i \in MergedSoFar}
        /\ \A k \in DOMAIN la_value.d :
              LET hi == MaxOf({i \in MergedSoFar : k \in DOMAIN la_results[i].d})
              IN  la_value.d[k] = la_results[hi].d[k]

\* C1 witness: three providers were merged; the first two disagree on k1,
\* only the first has k2, the last returned None; the call returned.
C1_Witness ==
    /\ la_pc = "returned"
    /\ Len(la_results) = 3
    /\ la_results[1] = DictV([k \in {"k1", "k2"} |-> "a"])
    /\ la_results[2] = DictV([k \in {"k1"} |-> "b"])
    /\ la_results[3] = NoneV
    /\ la_value = DictV([k \in {"k1", "k2"} |-> IF k = "k1" THEN "b" ELSE "a"])

\* C9: when a call for a single-valued attribute ends, it has returned
\* and the value is exactly the last non-None provider result.
C9_LastNonNoneWholesale ==
    (IsSingleValuedCall /\ la_pc \in {"returned", "raised"}) =>
        /\ la_pc = "returned"
        /\ la_value =
              la_results[MaxOf({i \in 1..Len(la_results) : la_results[i].tag # "none"})]

-----------------------------------------------------------------------------
\* Properties of the resolution

\* a raw internal value cast to the type its flag has in the schema
\* (config.py:244-261 of the flags loader)
CoerceValue(flag, raw) ==
    IF SchemaType(flag) = "integer"
    THEN IF IsDigits(raw.s) THEN IntV(IntOfDigits(raw.s, Len(raw.s)))
         ELSE RaiseV("ValueError", "int()")
    ELSE raw

PerVerbAttrs ==
    {"flag_allowlists", "env_variables", "flag_internal_values", "variables"}

MethodOf(attr) == (CHOOSE i \in 1..Len(AttrTable) : AttrTable[i].attr = attr)

\* the per-provider merge of one attribute for one scope, each method
\* called with the arguments it declares
OwnMerged(method, scope) ==
    LoadAttribute(Responses(providers, method, scope, method \in ScopedMethods,
                            available_verbs)).out

\* every query the resolution is meant to make is answered without raising
AllQueriesSucceed ==
    \A i \in 1..Len(providers), j \in 1..Len(AttrTable) :
        \A k \in 1..Len(ScopeList(available_verbs)) :
            (k = 1 \/ AttrTable[j].method \in ScopedMethods) =>
                Query(providers[i], AttrTable[j].method,
                      ScopeList(available_verbs)[k],
                      AttrTable[j].method \in ScopedMethods,
                      available_verbs).tag # "raise"

RootDirResults ==
    Responses(providers, "get_projects_root_dir", ScopeGlobal, FALSE, available_verbs)

RawInternalValues(scope) ==
    Responses(providers, "get_flag_internal_values", scope, TRUE, available_verbs)

\* every internal value a provider supplies can be cast to its flag's type
AllValuesCoercible ==
    \A k \in 1..Len(ScopeList(available_verbs)), i \in 1..Len(providers) :
        LET r == RawInternalValues(ScopeList(available_verbs)[k])[i]
        IN  r.tag = "dict" =>
                \A f \in DOMAIN r.d : CoerceValue(f, r.d[f]).tag # "raise"

\* sources from which resolution is meant to succeed
WellFormedSources ==
    /\ providers_arg.tag = "list"
    /\ Len(providers) >= 1
    /\ providers[1].kind = "defaults"
    /\ AllQueriesSucceed
    /\ AllValuesCoercible
    /\ \E i \in 1..Len(providers) : RootDirResults[i].tag = "path"

\* the value resolution is meant to store for key k of a merged mapping
Typed(attr, k, v) == IF attr = "flag_internal_values" THEN CoerceValue(k, v) ELSE v

\* the final mapping of a scope in a returned Configuration
FinalMapping(attr, scope) == result.cfg[attr].d[ScopeKey(scope)].d

ApplyGlobalSet(attr) ==
    result.cfg[IF attr = "flag_allowlists" THEN "flag_allowlists_apply_global"
               ELSE IF attr = "env_variables" THEN "env_variables_apply_global"
               ELSE IF attr = "flag_internal_values"
               THEN "flag_internal_values_apply_global"
               ELSE "variables_apply_global"].s

\* C2: resolution over well-formed sources ends with a Configuration in
\* which, for each per-verb attribute and each verb of its global-apply
\* set, every key of the global mapping is in the verb's final mapping,
\* with the verb's own value if the verb's own merge has the key and the
\* global value otherwise.
C2_GlobalApplyMerge ==
    (pc = "done" /\ WellFormedSources) =>
        /\ result.tag = "config"
        /\ \A a \in PerVerbAttrs : \A v \in ApplyGlobalSet(a) :
              LET m == AttrTable[MethodOf(a)].method
                  g == OwnMerged(m, ScopeGlobal).d
                  own == OwnMerged(m, ScopeVerb(v)).d
              IN  \A k \in DOMAIN g :
                    /\ k \in DOMAIN FinalMapping(a, ScopeVerb(v))
                    /\ FinalMapping(a, ScopeVerb(v))[k] =
                          Typed(a, k, IF k \in DOMAIN own THEN own[k] ELSE g[k])

C4_AvailableVerbsIsIntersection ==
    pc = "load" => available_verbs = allowlist_dir \cap schema_dir

\* C5: when a provider supplies the raw string "4" for the integer flag
\* threads, resolution over well-formed sources ends with a Configuration
\* whose internal value for threads is the integer 4 in every scope that
\* has the flag.
C5_InternalValuesAreTyped ==
    (/\ pc = "done"
     /\ WellFormedSources
     /\ \E i \in 1..Len(providers) :
           RawInternalValues(ScopeGlobal)[i] =
               DictV([f \in {"threads"} |-> StrV(<<"4">>)])) =>
        /\ result.tag = "config"
        /\ \A sk \in DOMAIN result.cfg["flag_internal_values"].d :
              LET m == result.cfg["flag_internal_values"].d[sk].d
              IN  "threads" \in DOMAIN m => m["threads"] = IntV(4)

\* C6: a provider query that raises ends the resolution at once: it is
\* the last query made and create_instance raises that very exception;
\* and when an internal value of the sources cannot be cast to its flag's
\* type, or a query raised, no Configuration is returned.
C6_AllOrNothing ==
    /\ \A i \in 1..Len(queried) :
          queried[i].tag = "raise" =>
              /\ pc = "done"
              /\ i = Len(queried)
              /\ result = queried[i]
    /\ (pc = "done" /\ providers_arg.tag = "list" /\ ~AllValuesCoercible) =>
          result.tag = "raise"

\* C6 witness: the allowed verbs were merged, then the defaults provider
\* failed to open its global allowlist document while a later provider
\* was still to be asked; create_instance raised that error.
C6_Witness ==
    /\ pc = "done"
    /\ idx = 2
    /\ Len(providers) = 2
    /\ providers[2].kind = "mock"
    /\ Len(queried) = 3
    /\ queried[3].tag = "raise"
    /\ result = RaiseV("FileNotFoundError", "DefaultsConfigProvider: open(global.yml)")

\* C7: when every query succeeds but no provider supplies a projects root
\* directory, create_instance raises the missing-configuration error
\* (ValidationError "projects_root_dir must be defined").
C7_MissingRootRaisesValidationError ==
    (/\ pc = "done"
     /\ providers_arg.tag = "list"
     /\ Len(providers) >= 1
     /\ providers[1].kind = "defaults"
     /\ AllQueriesSucceed
     /\ \A i \in 1..Len(providers) : RootDirResults[i].tag = "none") =>
        /\ result.tag = "raise"
        /\ result.exc = "ValidationError"

\* C10: whatever list the caller passes, the list create_instance goes on
\* with has a DefaultsConfigProvider as its first element, from which the
\* available verbs are obtained.
C10_DefaultsFirst ==
    (pc # "start" /\ providers_arg.tag = "list") =>
        /\ Len(providers) >= 1
        /\ providers[1].kind = "defaults"
        /\ available_verbs = DefaultsAvailableVerbs(allowlist_dir, schema_dir)

-----------------------------------------------------------------------------
\* Properties of get_projects_root_dir

\* C8: a provider asked for the projects root directory returns None when
\* none is configured, raises when the configured path is missing or not
\* a directory, and otherwise returns that existing directory.
C8_RootDirIsExistingDirectory ==
    pr_provider \in {"environment", "file"} =>
        LET configured == IF pr_provider = "environment" THEN pr_environ ELSE pr_option
        IN  IF configured.tag = "none" THEN pr_result = NoneV
            ELSE IF pr_fs[configured.s] = "dir" THEN pr_result = PathV(configured.s)
            ELSE pr_result.tag = "raise"

-----------------------------------------------------------------------------
\* Properties of repeated resolution and of the loader

C12_FailureLeavesSlotUnset ==
    (gc_pc \in {"ready", "resolving"}
        /\ \A i \in 1..Len(gc_log) : gc_log[i].tag = "raise") =>
        /\ gc_instance = NoneV
        /\ gc_attempts = Len(gc_log) + (IF gc_pc = "resolving" THEN 1 ELSE 0)
        /\ (gc_pc = "ready" /\ Len(gc_log) >= 1) => gc_log[Len(gc_log)] = result

\* C12 witness: two calls ended with an exception and a third one is
\* resolving again, the slot still unset.
C12_Witness ==
    /\ gc_pc = "resolving"
    /\ Len(gc_log) = 2
    /\ gc_log[1].tag = "raise"
    /\ gc_log[2].tag = "raise"
    /\ gc_attempts = 3
    /\ gc_instance = NoneV

-----------------------------------------------------------------------------
\* Properties of the boolean parser

\* the part of s between its first and its last non-whitespace character
Core(s) ==
    LET solid == {i \in 1..Len(s) : s[i] \notin Whitespace}
    IN  IF solid = {} THEN <<>>
        ELSE SubSeq(s, CHOOSE i \in solid : \A j \in solid : i <= j,
                       CHOOSE i \in solid : \A j \in solid : j <= i)

\* s spells token t, letter case aside
Spells(s, t) ==
    /\ Len(s) = Len(t)
    /\ \A i \in 1..Len(s) :
          \/ s[i] = t[i]
          \/ (s[i] \in DOMAIN LowerOf /\ LowerOf[s[i]] = t[i])

\* C14: for a string, the result is True iff its trimmed value spells
\* true/yes/1/on in any letter case, False iff it spells false/no/0/off,
\* and ValueError is raised otherwise; BoolParser.parse of None is the
\* default, False when none is passed.
C14_BoolParse ==
    call_op \in {"parse", "coerce_boolean"} =>
        IF call_args.value = NoneV
        THEN call_op = "parse" =>
                call_result = BoolV(call_args.default = "True")
        ELSE LET core == Core(call_args.value.s)
                 isTrue == \E t \in Truthies : Spells(core, t)
                 isFalse == \E t \in Falsies : Spells(core, t)
             IN  /\ call_result = BoolV(TRUE) <=> isTrue
                 /\ call_result = BoolV(FALSE) <=> isFalse
                 /\ ~(isTrue \/ isFalse) =>
                       /\ call_result.tag = "raise"
                       /\ call_result.exc = "ValueError"

\* C14 witness: " ON" was parsed to True.
C14_Witness ==
    /\ call_op = "parse"
    /\ call_args.value = StrV(<<" ", "O", "N">>)
    /\ call_result = BoolV(TRUE)

-----------------------------------------------------------------------------
\* Properties of the flags schema

\* the flags the schema documents list for a scope
SchemaFlags(scope, global_flags, verb_flags) ==
    IF scope.tag = "global" THEN global_flags ELSE verb_flags

\* C15: validate_flag_availability returns normally iff every key is, in
\* snake_case, a flag of the scope's schema; otherwise it raises one
\* aggregate error with exactly one sub-error per unrecognized key and
\* none for a recognized key.
C15_OneSubErrorPerUnrecognizedFlag ==
    call_op = "validate_flag_availability" =>
        LET known == SchemaFlags(call_args.scope, call_args.global_flags,
                                 call_args.verb_flags)
            unrecognized == {k \in call_args.flags : SnakeCase(k) \notin known}
        IN  IF unrecognized = {}
            THEN call_result = NoneV
            ELSE /\ call_result.tag = "raise"
                 /\ call_result.exc = "ExceptionGroup"
                 /\ call_result.subs = unrecognized

\* a raw value that can be cast to the type the schema declares for flag
Coercible(flag, raw) ==
    IF SchemaType(flag) = "integer" THEN IsDigits(raw.s)
    ELSE IF SchemaType(flag) = "boolean"
    THEN \E t \in ValidValues : Spells(Core(raw.s), t)
    ELSE TRUE

\* C16: the stage raises one aggregate error with exactly one sub-error
\* per flag whose raw value cannot be cast to its declared type, and
\* returns a mapping of the flags it was given when every value can.
C16_AllCastingFailuresReported ==
    call_op \in {"load_internal_values", "validate"} =>
        LET failing == {f \in DOMAIN call_args.raw : ~Coercible(f, call_args.raw[f])}
        IN  IF failing = {}
            THEN /\ call_result.tag = "dict"
                 /\ DOMAIN call_result.d = DOMAIN call_args.raw
            ELSE /\ call_result.tag = "raise"
                 /\ call_result.exc = "ExceptionGroup"
                 /\ call_result.subs = failing

-----------------------------------------------------------------------------
\* Properties of the verb-list options

\* a lowercase verb token
IsVerbToken(t) ==
    /\ Len(t) >= 1
    /\ t[1] \in Lower
    /\ \A i \in 1..Len(t) : t[i] \in Lower \cup {"-"}

\* a comma-separated list of lowercase verb tokens and `*`
IsVerbList(s) == \A t \in SplitComma(s) : IsVerbToken(t) \/ t = <<"*">>

\* the verbs a list names, `*` aside
NamedVerbs(s) == SplitComma(s) \ {<<"*">>}

\* C17: a verb-list method returns None for an unset or empty option,
\* raises ValueError for a value that is not a comma-separated list of
\* lowercase verb tokens or that names a verb outside available_verbs,
\* and any set it returns is a subset of available_verbs.
C17_VerbListValidated ==
    call_op \in {"env_verb_list", "file_verb_list"} =>
        LET v == call_args.value
            av == call_args.available_verbs
        IN  /\ call_result.tag = "set" => call_result.s \subseteq av
            /\ (v.tag = "none" \/ v.s = <<>>) => call_result = NoneV
            /\ (v.tag = "str" /\ v.s # <<>> /\ ~IsVerbList(v.s)) =>
                  (call_result.tag = "raise" /\ call_result.exc = "ValueError")
            /\ (v.tag = "str" /\ v.s # <<>> /\ IsVerbList(v.s)
                   /\ ~(NamedVerbs(v.s) \subseteq av)) =>
                  (call_result.tag = "raise" /\ call_result.exc = "ValueError")

\* C18: a list of available verbs that has the token `*` at any position
\* makes the method return exactly available_verbs.
C18_StarExpandsToAvailableVerbs ==
    (/\ call_op \in {"env_verb_list", "file_verb_list"}
     /\ call_args.value.tag = "str"
     /\ call_args.value.s # <<>>
     /\ IsVerbList(call_args.value.s)
     /\ <<"*">> \in SplitComma(call_args.value.s)
     /\ NamedVerbs(call_args.value.s) \subseteq call_args.available_verbs) =>
        call_result = SetV(call_args.available_verbs)

-----------------------------------------------------------------------------
\* Properties of get_flag_allowlist

\* a comma-separated list of kebab-case names
IsKebabList(s) == \A t \in SplitComma(s) : IsKebabName(t)

\* C19: with DBT_ENABLE_FLAGS set (and DBT_DISABLE_FLAGS unset), the
\* global allowlist of the environment provider maps the snake_case form
\* of each listed flag to True and has no other key when the value is a
\* list of kebab-case names the global schema recognizes, and ValueError
\* is raised when the value is not a list of kebab-case names.
C19_EnableFlagsRoundTrip ==
    (/\ call_op = "env_get_flag_allowlist"
     /\ call_args.scope = ScopeGlobal
     /\ call_args.enable.tag = "str"
     /\ call_args.disable = NoneV) =>
        LET listed == SplitComma(call_args.enable.s)
        IN  IF IsKebabList(call_args.enable.s)
            THEN (\A f \in listed : SnakeCase(f) \in call_args.global_flags) =>
                    call_result = DictV([k \in {SnakeCase(f) : f \in listed} |-> TRUE])
            ELSE /\ call_result.tag = "raise"
                 /\ call_result.exc = "ValueError"

\* the flag names the source of the call spells out
SourceFlags ==
    IF call_args.provider = "environment"
    THEN UNION {IF v.tag = "str" THEN SplitComma(v.s) ELSE {} :
                    v \in {call_args.enable, call_args.disable}}
    ELSE IF call_args.provider = "file"
    THEN IF call_args.section.tag = "dict" THEN DOMAIN call_args.section.d ELSE {}
    ELSE IF call_args.doc.tag = "dict" THEN DOMAIN call_args.doc.d ELSE {}

\* C20: a mapping returned by get_flag_allowlist has only keys the schema
\* of the scope recognizes, and a source that names an unrecognized flag
\* makes the call raise.
C20_AllowlistKeysRecognized ==
    call_op \in {"env_get_flag_allowlist", "file_get_flag_allowlist",
                 "defaults_get_flag_allowlist"} =>
        LET known == SchemaFlags(call_args.scope, call_args.global_flags,
                                 call_args.verb_flags)
        IN  /\ call_result.tag = "dict" => DOMAIN call_result.d \subseteq known
            /\ (\E f \in SourceFlags : SnakeCase(f) \notin known) =>
                  call_result.tag = "raise"

-----------------------------------------------------------------------------
\* Properties of the file provider object

\* DBT_CONFIG_FILE was unset or blank, or named a missing or an empty file,
\* when the provider was constructed
SourceMissingOrEmpty ==
    \/ fp_built.environ.tag = "none"
    \/ StrStrip(fp_built.environ.s) = <<>>
    \/ fp_built.entry.kind = "missing"
    \/ /\ fp_built.entry.kind = "file"
       /\ fp_built.entry.doc.tag = "dict"
       /\ DOMAIN fp_built.entry.doc.d = {}

\* C21: when DBT_CONFIG_FILE is unset or blank, or the file it names is
\* missing or empty, constructing the file provider succeeds and every
\* query method of it returns None, whatever its argument.
C21_MissingSourceGivesNone ==
    (fp_built # NoneV /\ SourceMissingOrEmpty) =>
        /\ fp_self.tag = "file_provider"
        /\ fp_query # NoneV => fp_result = NoneV

\* the methods whose result comes from the parsed file and the schema only
SnapshotMethods == VerbListMethods \cup ScopedMethods

\* C29: once the file provider is constructed, no step changes self.path
\* or self.config, and a query asked again after the file or
\* DBT_CONFIG_FILE changed gives what it gave before.
C29_QueriesServedFromSnapshot ==
    [][fp_self.tag = "file_provider" =>
          /\ fp_self' = fp_self
          /\ (/\ fp_query # NoneV
              /\ fp_query' = fp_query
              /\ fp_query.method \in SnapshotMethods) => fp_result' = fp_result]_vars

\* a mapping is served from the snapshot although the source it was parsed
\* from can no longer be read
C29_Witness ==
    /\ fp_self.tag = "file_provider"
    /\ fp_self.config # NoneV
    /\ fp_query # NoneV
    /\ fp_query.method \in ScopedMethods
    /\ fp_result.tag = "dict"
    /\ ReadConfigFile(fp_environ, fp_fs).tag = "raise"

-----------------------------------------------------------------------------
\* Properties of get_config under concurrent callers

\* C28: of the threads that call get_config while no instance is cached, at
\* most one is between the test `_instance is None` and the end of its
\* resolution: resolution never runs twice at a time.
C28_AtMostOneResolution ==
    Cardinality({t \in Threads : cc_pc[t] \in {"resolving", "resolved"}}) <= 1

-----------------------------------------------------------------------------
\* Properties of get_providers

\* C22: when create_instance is given no provider list, the list that
\* get_providers() hands it holds three providers, defaults then ini-file
\* then environment, each of a class that defines all ten operations.
C22_ThreeProvidersInPriorityOrder ==
    (providers_arg = NoneV /\ pc # "start") =>
        /\ Len(providers) = 3
        /\ providers[1].kind = "defaults"
        /\ providers[2].kind = "ini_file"
        /\ providers[3].kind = "environment"
        /\ \A i \in 1..3 : AbstractMethods \subseteq DefinedMethods(providers[i].kind)

-----------------------------------------------------------------------------
\* Properties of read_schema

\* C23: read_schema gives the global properties for no verb, the
\* properties of the verb's own document for a verb without merge_global,
\* and for a verb with merge_global the union of both in which the verb's
\* definition of a flag replaces the global one.
C23_ReadSchemaPerVerb ==
    call_op = "read_schema" =>
        IF call_args.scope.tag = "global"
        THEN call_result = DictV(call_args.global_yml.properties)
        ELSE IF ~call_args.merge_global
        THEN call_result = DictV(call_args.verb_ymls[call_args.scope.v])
        ELSE call_result = DictV(DictMerge(call_args.global_yml.properties,
                                           call_args.verb_ymls[call_args.scope.v]))

-----------------------------------------------------------------------------
\* Properties of get_env_variables

\* the renaming toggle of the call is unset or a falsy value
ToggleOff ==
    \/ call_args.toggle.tag = "none"
    \/ BoolParserParse(call_args.toggle, FALSE) = BoolV(FALSE)

ToggleOn == call_args.toggle.tag = "str" /\ BoolParserParse(call_args.toggle, FALSE) = BoolV(TRUE)

\* the names after DBT_{VERB_}ENV_ of the variables of the call
SourceRests == {call_args.rests[i] : i \in 1..Len(call_args.rests)}

\* C25: with renaming disabled, the environment provider returns every
\* variable DBT_{VERB}_ENV_{REST} of a verb scope under DBT_ENV_{REST}, the
\* rest of the name unchanged.
C25_VerbTokenRemovedFromPrefixOnly ==
    (/\ call_op = "env_get_env_variables"
     /\ call_args.scope.tag = "verb"
     /\ ToggleOff
     /\ SourceRests # {}) =>
        /\ call_result.tag = "dict"
        /\ \A r \in SourceRests : (K_DBT \o K_ENV \o r) \in DOMAIN call_result.d

\* the kind of a variable, by the prefix convention DBT_ENV_SECRET_ /
\* DBT_ENV_CUSTOM_ENV_
KindOf(r) ==
    IF StartsWith(r, K_SECRET \o <<"_">>) THEN "secret"
    ELSE IF StartsWith(r, K_CUSTOM_ENV \o <<"_">>) THEN "custom"
    ELSE "base"

\* C26: for both providers, with a truthy toggle a base variable
\* DBT_{VERB_}ENV_X is returned as DBT_X while secret and custom variables
\* keep their DBT_ENV_ name, and with a falsy or unset toggle every
\* returned name starts with DBT_ENV_.
C26_RenameAppliesToBaseKindOnly ==
    (/\ call_op \in {"env_get_env_variables", "file_get_env_variables"}
     /\ SourceRests # {}
     /\ (ToggleOn \/ ToggleOff)) =>
        /\ call_result.tag = "dict"
        /\ ToggleOn =>
              \A r \in SourceRests :
                  IF KindOf(r) = "base"
                  THEN (K_DBT \o r) \in DOMAIN call_result.d
                  ELSE (K_DBT \o K_ENV \o r) \in DOMAIN call_result.d
        /\ ToggleOff =>
              \A k \in DOMAIN call_result.d : StartsWith(k, K_DBT \o K_ENV)

\* C30: get_env_variables of the environment provider returns as many
\* entries as the environment has variables with the prefix of the scope
\* (None when it has none), with and without renaming.
C30_NoEntryLost ==
    (call_op = "env_get_env_variables" /\ (ToggleOn \/ ToggleOff)) =>
        IF SourceRests = {}
        THEN call_result = NoneV
        ELSE /\ call_result.tag = "dict"
             /\ Cardinality(DOMAIN call_result.d) = Cardinality(SourceRests)

-----------------------------------------------------------------------------
\* Properties of the scoped methods

\* C24: for the environment and the file provider and every attribute kind,
\* the result of a query for a scope is the result the same query gives on
\* a source that holds the entries of that scope only: nothing configured
\* for another scope, or outside the section of the scope, shows in it.
C24_ScopeIsolation ==
    call_op \in {"env_scoped_query", "file_scoped_query"} =>
        call_result = ScopedQueryOn(call_args,
                                    call_args.configured \cap {call_args.scope}, FALSE)

-----------------------------------------------------------------------------
\* Properties of the ENABLE and DISABLE variables

\* the flags a variable of get_flag_allowlist lists, in snake_case
ListedFlags(value) ==
    IF value.tag = "none" THEN {} ELSE {SnakeCase(f) : f \in SplitComma(value.s)}

\* a variable that is unset, or a list of kebab-case names in the format
\* get_flag_allowlist accepts
IsFlagListVariable(value) ==
    value.tag = "none" \/ (IsKebabList(value.s) /\ FlagListMatches(value.s))

\* C27: for the global scope and for a verb, with the two variables of the
\* scope unset or listing flags the schema of the scope recognizes,
\* get_flag_allowlist of the environment provider maps every flag listed
\* in DISABLE to False, also when ENABLE lists it, every flag listed in
\* ENABLE only to True, and returns None when no flag is listed.
C27_DisableOverridesEnable ==
    (/\ call_op = "env_get_flag_allowlist"
     /\ IsFlagListVariable(call_args.enable)
     /\ IsFlagListVariable(call_args.disable)
     /\ ListedFlags(call_args.enable) \cup ListedFlags(call_args.disable)
           \subseteq SchemaFlags(call_args.scope, call_args.global_flags,
                                 call_args.verb_flags)) =>
        LET enabled == ListedFlags(call_args.enable)
            disabled == ListedFlags(call_args.disable)
        IN  IF enabled \cup disabled = {}
            THEN call_result = NoneV
            ELSE call_result = DictV([f \in enabled \cup disabled |-> f \notin disabled])

====
